---- MODULE Spec2Model ----
(***************************************************************************)
(* signalforge: the bar validator (app/validator.py), the market data      *)
(* client with its TTL cache, its generator and its provider parser        *)
(* (app/data_client.py, app/cache.py), the feature builders                *)
(* (app/signals) and the predictor with the two scorers (app/ml/infer.py,  *)
(* app/routers/serve.py, app/ml/predict.py).                               *)
(*                                                                         *)
(* Python values are tagged records:                                       *)
(*   [t |-> "absent"]            the key is not in the mapping             *)
(*   [t |-> "none"]              None                                      *)
(*   [t |-> "int",   v |-> n]    the int n                                 *)
(*   [t |-> "bigint"]            an int beyond the year 9999 as a time     *)
(*   [t |-> "float", v |-> h]    the finite float h/2 (v counts halves)    *)
(*   [t |-> "nan"], [t |-> "inf"], [t |-> "ninf"]   float specials         *)
(*   [t |-> "str",   s |-> "..."] a str                                    *)
(*   [t |-> "list"]              a non-empty list (any other object)       *)
(* A float result is [t |-> "fin", v |-> halves] or one of the specials.   *)
(***************************************************************************)
EXTENDS Integers, Sequences, FiniteSets, TLC

VARIABLES
    raw,        \* the argument of the call under way (validate_bar: the raw record)
    symbol,     \* the symbol argument (sequence of characters)
    out,        \* how the call under way ended
    PROVIDER,   \* data_client.PROVIDER, read from SF_PROVIDER at import
    CACHE,      \* data_client._CACHE, in insertion order: <<[key, exp, val]>>
    now,        \* the wall clock (seconds)
    call,       \* the most recent fetch_market_data call and how it ended
    quotes,     \* app/cache.py _cache: key -> [exp, data], for the keys it holds
    look        \* the most recent cache lookup and what it returned

vars == <<raw, symbol, out, PROVIDER, CACHE, now, call, quotes, look>>

(***************************************************************************)
(* Bounds of the model.                                                    *)
(***************************************************************************)
MaxPrice == 2       \* int prices 1..MaxPrice are offered for open/high/low/close
MaxVolume == 1      \* int volumes -1..MaxVolume are offered

(***************************************************************************)
(* Strings: str.upper over the characters the model uses.                  *)
(***************************************************************************)
UpperChar(c) ==
    CASE c = "a" -> "A"
      [] c = "f" -> "F"
      [] c = "t" -> "T"
      [] c = "d" -> "D"
      [] c = "h" -> "H"
      [] c = "l" -> "L"
      [] c = "m" -> "M"
      [] c = "p" -> "P"
      [] OTHER -> c

Upper(s) == [i \in 1..Len(s) |-> UpperChar(s[i])]

(***************************************************************************)
(* Python's float(x), int(x) and truth value.                              *)
(***************************************************************************)
Raise == [ok |-> FALSE]
Ok(x) == [ok |-> TRUE, val |-> x]

Fin(h) == [t |-> "fin", v |-> h]
NaN == [t |-> "nan", v |-> 0]
PInf == [t |-> "inf", v |-> 0]
NInf == [t |-> "ninf", v |-> 0]

\* float("..."): the literals the model offers; any other text raises ValueError
StrToFloat(s) ==
    CASE s = "1" -> Ok(Fin(2))
      [] s = "1.5" -> Ok(Fin(3))
      [] s = "nan" -> Ok(NaN)
      [] s = "inf" -> Ok(PInf)
      [] OTHER -> Raise

\* int("..."): only integer literals parse ("1.5", "nan", "" raise ValueError)
StrToInt(s) ==
    CASE s = "1" -> Ok(1)
      [] OTHER -> Raise

PyFloat(x) ==
    CASE x.t = "int" -> Ok(Fin(2 * x.v))
      [] x.t = "float" -> Ok(Fin(x.v))
      [] x.t = "nan" -> Ok(NaN)
      [] x.t = "inf" -> Ok(PInf)
      [] x.t = "ninf" -> Ok(NInf)
      [] x.t = "str" -> StrToFloat(x.s)
      [] OTHER -> Raise                      \* None, list: TypeError

\* truncation toward zero of h/2
Trunc(h) == IF h >= 0 THEN h \div 2 ELSE -((-h) \div 2)

PyInt(x) ==
    CASE x.t = "int" -> Ok(x.v)
      [] x.t = "float" -> Ok(Trunc(x.v))
      [] x.t = "str" -> StrToInt(x.s)
      [] OTHER -> Raise       \* nan: ValueError, inf: OverflowError, None/list: TypeError

Truthy(x) ==
    CASE x.t \in {"absent", "none"} -> FALSE
      [] x.t \in {"int", "float"} -> x.v # 0
      [] x.t = "str" -> x.s # ""
      [] OTHER -> TRUE                       \* nan, inf, -inf, a non-empty list

\* a <= b on floats: every comparison with nan is false
FloatLe(a, b) ==
    CASE a.t = "nan" \/ b.t = "nan" -> FALSE
      [] a.t = "ninf" -> TRUE
      [] b.t = "inf" -> TRUE
      [] a.t = "fin" /\ b.t = "fin" -> a.v <= b.v
      [] OTHER -> FALSE

IsFinite(f) == f.t = "fin"

(***************************************************************************)
(* app/validator.py                                                        *)
(***************************************************************************)
PyNone == [t |-> "none"]
Absent == [t |-> "absent"]

\* dict.get(k): None for a missing key
Get(bar, k) == IF bar[k].t = "absent" THEN PyNone ELSE bar[k]

\* datetime.fromisoformat(ts.replace("Z", "+00:00")).astimezone(UTC): the epoch
\* second of the texts the model offers; any other text raises
FromIso(s) ==
    CASE s = "1970-01-01T00:00:01Z" -> Ok(2)
      [] s = "1970-01-01T01:00:01+01:00" -> Ok(2)
      [] OTHER -> Raise

\* _parse_ts: Ok(instant), Ok(None) or an exception out of fromtimestamp; an
\* instant is a UTC time in half seconds since the epoch
NoTime == [t |-> "none"]
Instant(e) == [t |-> "utc", v |-> e]

parse_ts(ts) ==
    CASE ts.t = "none" -> Ok(NoTime)
      [] ts.t = "int" -> Ok(Instant(2 * ts.v))
      [] ts.t = "bigint" -> Raise            \* fromtimestamp: year out of range
      [] ts.t = "float" -> Ok(Instant(ts.v))
      [] ts.t \in {"nan", "inf", "ninf"} -> Raise
      [] ts.t = "str" -> IF FromIso(ts.s).ok THEN Ok(Instant(FromIso(ts.s).val)) ELSE Ok(NoTime)
      [] OTHER -> Ok(NoTime)

Required == <<"open", "high", "low", "close">>

Rejected == [kind |-> "None"]
Raised(e) == [kind |-> "raise", exc |-> e]

validate_bar(bar, sym) ==
    IF \E i \in 1..Len(Required) : bar[Required[i]].t = "absent" THEN Rejected
    ELSE
    LET ts == IF bar["ts"].t = "absent" THEN NoTime
              ELSE IF parse_ts(Get(bar, "ts")).ok THEN parse_ts(Get(bar, "ts")).val
              ELSE NoTime
        o == PyFloat(bar["open"])
        h == PyFloat(bar["high"])
        low == PyFloat(bar["low"])
        c == PyFloat(bar["close"])
        vsrc == IF Truthy(Get(bar, "volume")) THEN Get(bar, "volume") ELSE [t |-> "int", v |-> 0]
        vol == PyInt(vsrc)
    IN  IF ~(o.ok /\ h.ok /\ low.ok /\ c.ok) THEN Rejected
        ELSE IF ~(FloatLe(low.val, o.val) /\ FloatLe(o.val, h.val)
                  /\ FloatLe(low.val, c.val) /\ FloatLe(c.val, h.val)) THEN Rejected
        ELSE IF ~vol.ok THEN Raised("int() of volume")
        ELSE [kind |-> "bar",
              symbol |-> Upper(sym),
              open |-> o.val, high |-> h.val, low |-> low.val, close |-> c.val,
              volume |-> vol.val,
              hasTs |-> ts.t # "none",
              ts |-> IF ts.t # "none" THEN Get(bar, "ts") ELSE PyNone,
              time |-> ts]

(***************************************************************************)
(* app/data_client.py: configuration                                       *)
(***************************************************************************)
\* MAX_CACHE_SIZE is 16 in the source. The model runs the same code with this
\* smaller capacity, so that a full cache and eviction are reached.
MAX_CACHE_SIZE == 2

\* CACHE_TTL_SEC = float(os.getenv("SF_DATA_TTL_SEC", "15")): the configured
\* time to live; the model runs with SF_DATA_TTL_SEC set to this value.
CACHE_TTL_SEC == 1

MaxTime == 2        \* the clock runs from 0 to MaxTime

SUPPORTED_PROVIDER == "YAHOO_CHART"

\* a str argument is a sequence of one-character strings
ALLOWED_INTERVALS ==
    {<<"1", "m">>, <<"2", "m">>, <<"5", "m">>, <<"1", "5", "m">>, <<"3", "0", "m">>,
     <<"6", "0", "m">>, <<"9", "0", "m">>, <<"1", "h">>, <<"1", "d">>}

LowerChar(c) ==
    CASE c = "D" -> "d"
      [] c = "H" -> "h"
      [] c = "M" -> "m"
      [] OTHER -> c

Lower(s) == [i \in 1..Len(s) |-> LowerChar(s[i])]

IsSpace(c) == c \in {" ", "\t", "\n"}

RECURSIVE LStrip(_)
LStrip(s) == IF s # <<>> /\ IsSpace(Head(s)) THEN LStrip(Tail(s)) ELSE s

RECURSIVE RStrip(_)
RStrip(s) ==
    IF s # <<>> /\ IsSpace(s[Len(s)]) THEN RStrip(SubSeq(s, 1, Len(s) - 1)) ELSE s

Strip(s) == RStrip(LStrip(s))

\* _normalize_interval without the strip()
normalize_interval_no_strip(interval) ==
    LET a == Lower(interval)
        b == IF a = <<"5">> THEN <<"5", "m">> ELSE a
    IN  IF b \notin ALLOWED_INTERVALS THEN Raise ELSE Ok(b)

\* _normalize_interval: Ok(interval) or ValueError("unsupported interval")
normalize_interval(interval) ==
    LET a == Strip(Lower(interval))
        b == IF a = <<"5">> THEN <<"5", "m">> ELSE a
    IN  IF b \notin ALLOWED_INTERVALS THEN Raise ELSE Ok(b)

(***************************************************************************)
(* app/data_client.py: the cache. _CACHE is a dict, which keeps its keys   *)
(* in insertion order: a sequence of entries [key, exp, val].              *)
(***************************************************************************)
Keys(cache) == {cache[i].key : i \in 1..Len(cache)}

IndexOf(cache, key) == CHOOSE i \in 1..Len(cache) : cache[i].key = key

Remove(cache, i) == SubSeq(cache, 1, i - 1) \o SubSeq(cache, i + 1, Len(cache))

\* _cache_get expiring an entry one second early (now >= exp)
cache_get_early(cache, key, t) ==
    IF key \notin Keys(cache) THEN [hit |-> FALSE, cache |-> cache]
    ELSE LET i == IndexOf(cache, key)
         IN  IF t >= cache[i].exp
             THEN [hit |-> FALSE, cache |-> Remove(cache, i)]
             ELSE [hit |-> TRUE, val |-> cache[i].val, exp |-> cache[i].exp, cache |-> cache]

\* _cache_get without the expiry test
cache_get_no_expiry(cache, key, t) ==
    IF key \notin Keys(cache) THEN [hit |-> FALSE, cache |-> cache]
    ELSE LET i == IndexOf(cache, key)
         IN  [hit |-> TRUE, val |-> cache[i].val, exp |-> cache[i].exp, cache |-> cache]

\* _cache_get at clock reading t: the value returned (or a miss) and the cache left
cache_get(cache, key, t) ==
    IF key \notin Keys(cache) THEN [hit |-> FALSE, cache |-> cache]
    ELSE LET i == IndexOf(cache, key)
         IN  IF t > cache[i].exp
             THEN [hit |-> FALSE, cache |-> Remove(cache, i)]
             ELSE [hit |-> TRUE, val |-> cache[i].val, exp |-> cache[i].exp, cache |-> cache]

\* _cache_set evicting only above the capacity (len > MAX_CACHE_SIZE)
cache_set_late_evict(cache, key, val, t) ==
    LET c1 == IF Len(cache) > MAX_CACHE_SIZE /\ cache # <<>> THEN Tail(cache) ELSE cache
        e == [key |-> key, exp |-> t + CACHE_TTL_SEC, val |-> val]
    IN  IF key \in Keys(c1)
        THEN [i \in 1..Len(c1) |-> IF c1[i].key = key THEN e ELSE c1[i]]
        ELSE Append(c1, e)

\* _cache_set keeping the entry a key already has (dict.setdefault)
cache_set_keep_old(cache, key, val, t) ==
    LET c1 == IF Len(cache) >= MAX_CACHE_SIZE /\ cache # <<>> THEN Tail(cache) ELSE cache
        e == [key |-> key, exp |-> t + CACHE_TTL_SEC, val |-> val]
    IN  IF key \in Keys(c1) THEN c1 ELSE Append(c1, e)

\* _cache_set evicting only to make room for a key the cache does not hold
cache_set_evict_if_new(cache, key, val, t) ==
    LET c1 == IF Len(cache) >= MAX_CACHE_SIZE /\ cache # <<>> /\ key \notin Keys(cache)
              THEN Tail(cache) ELSE cache
        e == [key |-> key, exp |-> t + CACHE_TTL_SEC, val |-> val]
    IN  IF key \in Keys(c1)
        THEN [i \in 1..Len(c1) |-> IF c1[i].key = key THEN e ELSE c1[i]]
        ELSE Append(c1, e)

\* _cache_set at clock reading t: the cache left
cache_set(cache, key, val, t) ==
    LET c1 == IF Len(cache) >= MAX_CACHE_SIZE /\ cache # <<>> THEN Tail(cache) ELSE cache
        e == [key |-> key, exp |-> t + CACHE_TTL_SEC, val |-> val]
    IN  IF key \in Keys(c1)
        THEN [i \in 1..Len(c1) |-> IF c1[i].key = key THEN e ELSE c1[i]]
        ELSE Append(c1, e)

(***************************************************************************)
(* app/data_client.py: fetch_market_data                                   *)
(***************************************************************************)
\* the bars of _synthetic_candles_list(limit, interval, mode) run at time t: the
\* generator is random, so its result is named by its arguments and its run
synthetic_candles_list(limit, interval, mode, t) ==
    [src |-> "synthetic", limit |-> limit, interval |-> interval, mode |-> mode, at |-> t]

\* the bars of normalize_yahoo_chart(r.json(), sym) for the provider's answer
yahoo_candles(sym, interval, t) ==
    [src |-> "yahoo", symbol |-> sym, interval |-> interval, at |-> t]

Payload(sym, interval, as_of, candles) ==
    [symbol |-> sym, interval |-> interval, as_of |-> as_of, candles |-> candles]

NoPayload == [symbol |-> <<>>]

\* f"{limit}:{int(bool(synthetic))}:{synthetic_mode}": one text per triple
Variant(limit, synthetic, mode) == <<limit, IF synthetic # 0 THEN 1 ELSE 0, mode>>

CacheKey(sym, interval, limit, synthetic, mode) ==
    <<sym, interval, Variant(limit, synthetic, mode)>>

\* what the provider request of a call comes to: a status, or no answer at all
Responses == {"200", "429", "500", "RequestError"}

\* the provider test left out
provider_any(provider) == TRUE

\* if PROVIDER == "YAHOO_CHART"
provider_supported(provider) == provider = SUPPORTED_PROVIDER

\* HTTP 429 re-raised like any other status
on_response_429_raises(resp) ==
    CASE resp = "200" -> "parse"
      [] resp = "RequestError" -> "fallback"
      [] OTHER -> "raise"

\* every HTTP error status answered with generated bars
on_response_all_fallback(resp) ==
    CASE resp = "200" -> "parse"
      [] OTHER -> "fallback"

\* the except clauses around the request: the bars are parsed from a good answer,
\* generated after HTTP 429 or a RequestError, and any other status is re-raised
on_response(resp) ==
    CASE resp = "200" -> "parse"
      [] resp = "429" -> "fallback"
      [] resp = "RequestError" -> "fallback"
      [] OTHER -> "raise"

\* The record of a call: its arguments, the clock when it ran, its cache key,
\* how it ended (kind "return" with payload, or "raise" with err), whether the
\* payload came out of the cache (with that entry's expiry), the provider's
\* answer if the request was made, the generator runs, and whether it stored
\* (with the number of entries _cache_set found).
Ended(a, t, key, kind, err, payload, fromCache, hitExp, resp, generated, stored, found) ==
    [args |-> a, at |-> t, key |-> key, kind |-> kind, err |-> err,
     payload |-> payload, fromCache |-> fromCache, hitExp |-> hitExp,
     response |-> resp, generated |-> generated, stored |-> stored, found |-> found]

\* a : the arguments [symbol, interval, limit, synthetic, mode, use_cache];
\* t : the clock during the call (a call takes no time on the model's clock);
\* resp : the provider's answer, should the call make the request.
\* The result is the cache the call leaves and the record of the call.
fetch_market_data(cache, provider, a, t, resp) ==
    LET sym == Upper(a.symbol)
        ni == normalize_interval(a.interval)
    IN
    IF ~ni.ok
    THEN [cache |-> cache,
          call |-> Ended(a, t, <<>>, "raise", "unsupported interval", NoPayload,
                         FALSE, 0, "none", <<>>, FALSE, 0)]
    ELSE
    LET key == CacheKey(sym, ni.val, a.limit, a.synthetic, a.mode)
        got == IF a.use_cache THEN cache_get(cache, key, t)
               ELSE [hit |-> FALSE, cache |-> cache]
        c1 == got.cache
        synth == synthetic_candles_list(a.limit, ni.val, a.mode, t)
        stored(candles, r, gen) ==
            LET payload == Payload(sym, ni.val, t, candles)
            IN  [cache |-> cache_set(c1, key, payload, t),
                 call |-> Ended(a, t, key, "return", "", payload, FALSE, 0, r, gen, TRUE,
                                Len(c1))]
        failed(err, r) ==
            [cache |-> c1,
             call |-> Ended(a, t, key, "raise", err, NoPayload, FALSE, 0, r, <<>>, FALSE, 0)]
    IN
    IF got.hit
    THEN [cache |-> c1,
          call |-> Ended(a, t, key, "return", "", got.val, TRUE, got.exp, "none", <<>>,
                         FALSE, 0)]
    ELSE IF a.synthetic # 0
    THEN stored(synth, "none", <<synth>>)
    ELSE IF provider_supported(provider)
    THEN CASE on_response(resp) = "parse" ->
                stored(yahoo_candles(sym, ni.val, t), resp, <<>>)
           [] on_response(resp) = "fallback" -> stored(synth, resp, <<synth>>)
           [] OTHER -> failed("HTTPStatusError", resp)
    ELSE failed("Unsupported provider", "none")

(***************************************************************************)
(* app/cache.py: the quote cache, a dict (symbol.upper(), interval) ->      *)
(* (expiry, data), here a function on the keys it holds.                   *)
(***************************************************************************)
\* get_cache at clock reading t
get_cache(store, sym, interval, t) ==
    LET key == <<Upper(sym), interval>>
    IN  IF key \notin DOMAIN store THEN [hit |-> FALSE, cache |-> store]
        ELSE IF t > store[key].exp
        THEN [hit |-> FALSE, cache |-> [k \in DOMAIN store \ {key} |-> store[k]]]
        ELSE [hit |-> TRUE, val |-> store[key].data, exp |-> store[key].exp,
              cache |-> store]

\* set_cache at clock reading t
set_cache(store, sym, interval, data, ttl_s, t) ==
    LET key == <<Upper(sym), interval>>
    IN  [k \in DOMAIN store \cup {key} |->
            IF k = key THEN [exp |-> t + ttl_s, data |-> data] ELSE store[k]]

(***************************************************************************)
(* The raw records offered to validate_bar.                                *)
(***************************************************************************)
PyI(n) == [t |-> "int", v |-> n]
PyS(s) == [t |-> "str", s |-> s]

PriceVals ==
    {Absent, PyNone, PyS("abc"), PyS("1.5"), [t |-> "nan"], [t |-> "inf"]}
        \cup {PyI(n) : n \in 1..MaxPrice}

VolumeVals ==
    {Absent, PyNone, PyS("abc"), PyS(""), [t |-> "float", v |-> 3], [t |-> "nan"]}
        \cup {PyI(n) : n \in -1..MaxVolume}

TsVals ==
    {Absent, PyNone, PyI(1), [t |-> "bigint"], PyS("1970-01-01T00:00:01Z"),
     PyS("yesterday"), [t |-> "nan"]}

RawBars ==
    {[open |-> o, high |-> h, low |-> l, close |-> c, volume |-> v, ts |-> ts] :
        o \in PriceVals, h \in PriceVals, l \in PriceVals, c \in PriceVals,
        v \in VolumeVals, ts \in TsVals}

Pending == [kind |-> "pending"]
Returned(v) == [kind |-> "return", val |-> v]
NoCall == [kind |-> "none"]
NoLook == [kind |-> "none"]
NoQuotes == [k \in {} |-> 0]

InitValidate ==
    /\ raw \in RawBars
    /\ symbol = <<"a", "a", "p", "l">>
    /\ out = Pending
    /\ PROVIDER = "YAHOO_CHART"
    /\ CACHE = <<>>
    /\ now = 0
    /\ call = NoCall
    /\ quotes = NoQuotes
    /\ look = NoLook

Validate ==
    /\ out = Pending
    /\ out' = validate_bar(raw, symbol)
    /\ UNCHANGED <<raw, symbol, PROVIDER, CACHE, now, call, quotes, look>>

NextValidate == Validate

SpecValidate == InitValidate /\ [][NextValidate]_vars

(***************************************************************************)
(* The data client: calls of fetch_market_data one after another, and the  *)
(* clock.                                                                  *)
(***************************************************************************)
Symbols == {<<"f">>}
Intervals == {<<" ", "5">>, <<"7", "m">>}
Limits == {5}
Modes == {"up", "flat"}
Providers == {"YAHOO_CHART", "ALPHA_VANTAGE"}

Args ==
    [symbol : Symbols, interval : Intervals, limit : Limits, synthetic : {0, 1},
     mode : Modes, use_cache : BOOLEAN]

NoBar ==
    [open |-> Absent, high |-> Absent, low |-> Absent, close |-> Absent,
     volume |-> Absent, ts |-> Absent]

Init ==
    /\ raw = NoBar
    /\ symbol = <<>>
    /\ out = Pending
    /\ PROVIDER \in Providers
    /\ CACHE = <<>>
    /\ now = 0
    /\ call = NoCall
    /\ quotes = NoQuotes
    /\ look = NoLook

\* the call reaches the provider request: no hit, not synthetic, provider supported
MakesRequest(cache, provider, a, t) ==
    /\ normalize_interval(a.interval).ok
    /\ ~( /\ a.use_cache
          /\ cache_get(cache, CacheKey(Upper(a.symbol), normalize_interval(a.interval).val,
                                       a.limit, a.synthetic, a.mode), t).hit )
    /\ a.synthetic = 0
    /\ provider_supported(provider)

\* the answers the provider can give to the call
Answers(cache, provider, a, t) ==
    IF MakesRequest(cache, provider, a, t) THEN Responses ELSE {"none"}

Fetch ==
    \E a \in Args :
        \E resp \in Answers(CACHE, PROVIDER, a, now) :
            LET r == fetch_market_data(CACHE, PROVIDER, a, now, resp)
            IN  /\ CACHE' = r.cache
                /\ call' = r.call
                /\ UNCHANGED <<raw, symbol, out, PROVIDER, now, quotes, look>>

Tick ==
    /\ now < MaxTime
    /\ now' = now + 1
    /\ UNCHANGED <<raw, symbol, out, PROVIDER, CACHE, call, quotes, look>>

Next == Fetch \/ Tick

Spec == Init /\ [][Next]_vars

(***************************************************************************)
(* The two caches on their own: any sequence of stores and lookups, and    *)
(* the clock.                                                              *)
(***************************************************************************)
StoreKeys == {CacheKey(<<"F">>, <<"5", "m">>, l, 0, "up") : l \in {5, 6, 7}}
StoreVals == {"p", "q"}
QuoteSymbols == {<<"f">>}
QuoteIntervals == {<<"5", "m">>}
QuoteData == {"x"}
QuoteTtls == {0, 1}

\* the record of a lookup; found: the cache held an entry under the key
Looked(which, key, t, found, r) ==
    [kind |-> which, key |-> key, at |-> t, found |-> found, hit |-> r.hit,
     val |-> IF r.hit THEN r.val ELSE "", exp |-> IF r.hit THEN r.exp ELSE 0]

InitCache ==
    /\ raw = NoBar
    /\ symbol = <<>>
    /\ out = Pending
    /\ PROVIDER = SUPPORTED_PROVIDER
    /\ CACHE = <<>>
    /\ now = 0
    /\ call = NoCall
    /\ quotes = NoQuotes
    /\ look = NoLook

CacheSet ==
    \E key \in StoreKeys, val \in StoreVals :
        /\ CACHE' = cache_set(CACHE, key, val, now)
        /\ UNCHANGED <<raw, symbol, out, PROVIDER, now, call, quotes, look>>

CacheGet ==
    \E key \in StoreKeys :
        LET r == cache_get(CACHE, key, now)
        IN  /\ CACHE' = r.cache
            /\ look' = Looked("_cache_get", key, now, key \in Keys(CACHE), r)
            /\ UNCHANGED <<raw, symbol, out, PROVIDER, now, call, quotes>>

SetCache ==
    \E sym \in QuoteSymbols, interval \in QuoteIntervals, data \in QuoteData,
       ttl_s \in QuoteTtls :
        /\ quotes' = set_cache(quotes, sym, interval, data, ttl_s, now)
        /\ UNCHANGED <<raw, symbol, out, PROVIDER, CACHE, now, call, look>>

GetCache ==
    \E sym \in QuoteSymbols, interval \in QuoteIntervals :
        LET r == get_cache(quotes, sym, interval, now)
        IN  /\ quotes' = r.cache
            /\ look' = Looked("get_cache", <<Upper(sym), interval>>, now,
                              <<Upper(sym), interval>> \in DOMAIN quotes, r)
            /\ UNCHANGED <<raw, symbol, out, PROVIDER, CACHE, now, call>>

NextCache == CacheSet \/ CacheGet \/ SetCache \/ GetCache \/ Tick

SpecCache == InitCache /\ [][NextCache]_vars

(***************************************************************************)
(* The series cache on its own, with the store just made on record: call   *)
(* holds the key stored and, in dict order, the keys the cache held before *)
(* the store, each with whether its entry had expired by then.             *)
(***************************************************************************)
Stored(cache, key, t) ==
    [kind |-> "_cache_set", key |-> key, at |-> t,
     before |-> [i \in 1..Len(cache) |-> [key |-> cache[i].key, expired |-> t > cache[i].exp]]]

InitStore == InitCache

\* one call of _cache_set(key, val)
Store ==
    \E key \in StoreKeys, val \in StoreVals :
        /\ CACHE' = cache_set(CACHE, key, val, now)
        /\ call' = Stored(CACHE, key, now)
        /\ UNCHANGED <<raw, symbol, out, PROVIDER, now, quotes, look>>

\* one call of _cache_get(key)
Lookup ==
    \E key \in StoreKeys :
        /\ CACHE' = cache_get(CACHE, key, now).cache
        /\ call' = [kind |-> "_cache_get", key |-> key, at |-> now]
        /\ UNCHANGED <<raw, symbol, out, PROVIDER, now, quotes, look>>

NextStore == Store \/ Lookup \/ Tick

SpecStore == InitStore /\ [][NextStore]_vars

(***************************************************************************)
(* app/data_client.py: _synthetic_candles_list, bar by bar. A float price  *)
(* is counted in halves, as in validate_bar; the generation instant is     *)
(* counted in half seconds.                                                *)
(***************************************************************************)
MaxLimit == 3       \* limits 0..MaxLimit are offered to the generator

\* the epoch second at which the model's clock reads 0 (datetime.now(UTC))
Today == 1000000

\* _INTERVAL_TO_MIN.get(interval, 5): the table has no entry for "1d"
INTERVAL_TO_MIN(interval) ==
    CASE interval = <<"1", "m">> -> 1
      [] interval = <<"2", "m">> -> 2
      [] interval = <<"5", "m">> -> 5
      [] interval = <<"1", "5", "m">> -> 15
      [] interval = <<"3", "0", "m">> -> 30
      [] interval = <<"6", "0", "m">> -> 60
      [] interval = <<"9", "0", "m">> -> 90
      [] interval = <<"1", "h">> -> 60
      [] OTHER -> 5

\* random.gauss(drift, 0.5) can come to any amount whatever the drift of the
\* mode is: the steps offered, in halves. random.random() * 0.3 lies in
\* [0, 0.3): of the amounts counted in halves that is 0, offered as the wick.
Steps == {-1, 0, 1}
Wicks == {0}
SyntheticVolumes == {1000, 5000}      \* random.randint(1000, 5000)
Draws == [step : Steps, up : Wicks, down : Wicks, vol : SyntheticVolumes]

PyF(h) == [t |-> "float", v |-> h]

Max(a, b) == IF a >= b THEN a ELSE b
Min(a, b) == IF a <= b THEN a ELSE b

\* int((now - timedelta(minutes=minutes * (limit - 1 - i))).timestamp()), for
\* the generation instant inst (half seconds since the epoch) and bar i of 0..limit-1
synthetic_ts(inst, minutes, limit, i) == Trunc(inst - 120 * minutes * (limit - 1 - i))

\* the loop from bar i on, with price the last close and rnd the draws of the
\* random module, one per bar; a bar validate_bar rejects is left out
RECURSIVE synthetic_loop(_, _, _, _, _, _)
synthetic_loop(i, price, limit, minutes, inst, rnd) ==
    IF i >= limit THEN <<>>
    ELSE LET d == rnd[i + 1]
             new_close == Max(2, price + d.step)
             hi == Max(price, new_close) + d.up
             lo == Min(price, new_close) - d.down
             candidate == [ts |-> PyI(synthetic_ts(inst, minutes, limit, i)),
                           open |-> PyF(price), high |-> PyF(hi), low |-> PyF(lo),
                           close |-> PyF(new_close), volume |-> PyI(d.vol)]
             good == validate_bar(candidate, <<"S", "Y", "N", "T", "H">>)
             rest == synthetic_loop(i + 1, new_close, limit, minutes, inst, rnd)
         IN  IF good.kind = "bar" THEN <<good>> \o rest ELSE rest

\* _synthetic_candles_list(limit, interval, mode) run at the instant inst
synthetic_candles(limit, interval, mode, inst, rnd) ==
    synthetic_loop(0, 200, limit, INTERVAL_TO_MIN(interval), inst, rnd)

SyntheticArgs ==
    [limit : 0..MaxLimit, interval : ALLOWED_INTERVALS, mode : {"up", "down", "flat"},
     half : {0, 1}]

Generated(bars) == [kind |-> "generated", bars |-> bars]

InitSynthetic ==
    /\ raw \in SyntheticArgs
    /\ symbol = <<>>
    /\ out = Pending
    /\ PROVIDER = SUPPORTED_PROVIDER
    /\ CACHE = <<>>
    /\ now \in 0..MaxTime
    /\ call = NoCall
    /\ quotes = NoQuotes
    /\ look = NoLook

\* the generation instant: the clock reading and the half second within it
Instant0 == 2 * (Today + now) + raw.half

\* one call of _synthetic_candles_list(raw.limit, raw.interval, raw.mode)
Generate ==
    /\ out = Pending
    /\ \E rnd \in [1..raw.limit -> Draws] :
          out' = Generated(synthetic_candles(raw.limit, raw.interval, raw.mode, Instant0, rnd))
    /\ UNCHANGED <<raw, symbol, PROVIDER, CACHE, now, call, quotes, look>>

NextSynthetic == Generate

SpecSynthetic == InitSynthetic /\ [][NextSynthetic]_vars

(***************************************************************************)
(* app/data_client.py: normalize_yahoo_chart. A response is                 *)
(*   [top, timestamp, open, high, low, close, volume]                      *)
(* top says what resp["chart"]["result"][0] comes to; each of the others   *)
(* is the value under that key: Absent, None, or [t |-> "array", items].   *)
(***************************************************************************)
MaxBars == 2        \* the arrays of a response hold up to MaxBars entries

Array(items) == [t |-> "array", items |-> items]

\* x or []
OrEmpty(x) == IF x.t = "array" THEN x.items ELSE <<>>

\* quotes.get(k, []): an absent key gives [], a null value stays None
GetOrEmpty(x) == IF x.t = "absent" THEN Array(<<>>) ELSE x

\* the float float(x) returned, as a Python value
AsPy(f) == IF f.t = "fin" THEN PyF(f.v) ELSE [t |-> f.t]

\* val is None or (isinstance(val, float) and math.isnan(val))
Empty(val) == val.t \in {"none", "nan"}

Min5(a, b, c, d, e) == Min(a, Min(b, Min(c, Min(d, e))))

\* the loop of normalize_yahoo_chart from index i (counted from 1) on:
\* Ok(bars), or Raise when a conversion or validate_bar raises
RECURSIVE yahoo_loop(_, _, _, _, _, _, _, _, _)
yahoo_loop(i, n, timestamps, opens, highs, lows, closes, volumes, sym) ==
    IF i > n THEN Ok(<<>>)
    ELSE IF volumes.t # "array" THEN Raise                  \* len(volumes): TypeError
    ELSE
    LET o == opens[i]
        h == highs[i]
        lo == lows[i]
        c == closes[i]
        v == IF i <= Len(volumes.items) THEN volumes.items[i] ELSE PyNone
        rest == yahoo_loop(i + 1, n, timestamps, opens, highs, lows, closes, volumes, sym)
        ts == PyInt(timestamps[i])
        fo == PyFloat(o)
        fh == PyFloat(h)
        fl == PyFloat(lo)
        fc == PyFloat(c)
        vol == PyInt(IF Truthy(v) THEN v ELSE PyI(0))
    IN  IF Empty(o) \/ Empty(h) \/ Empty(lo) \/ Empty(c) THEN rest
        ELSE IF ~(ts.ok /\ fo.ok /\ fh.ok /\ fl.ok /\ fc.ok /\ vol.ok) THEN Raise
        ELSE LET candidate == [ts |-> PyI(ts.val), open |-> AsPy(fo.val),
                               high |-> AsPy(fh.val), low |-> AsPy(fl.val),
                               close |-> AsPy(fc.val), volume |-> PyI(vol.val)]
                 good == validate_bar(candidate, sym)
             IN  IF good.kind = "raise" \/ ~rest.ok THEN Raise
                 ELSE IF good.kind = "bar" THEN Ok(<<good>> \o rest.val)
                 ELSE rest

normalize_yahoo_chart(resp, sym) ==
    IF resp.top \in {"no chart", "result null", "result empty"} THEN Ok(<<>>)
    ELSE IF resp.top = "result[0] null" THEN Raise          \* result.get: AttributeError
    ELSE
    LET timestamps == OrEmpty(resp.timestamp)
        opens == GetOrEmpty(resp.open)
        highs == GetOrEmpty(resp.high)
        lows == GetOrEmpty(resp.low)
        closes == GetOrEmpty(resp.close)
        volumes == GetOrEmpty(resp.volume)
    IN  IF timestamps = <<>> \/ resp.top = "no quote" THEN Ok(<<>>)
        ELSE IF \E a \in {opens, highs, lows, closes} : a.t # "array" THEN Raise   \* len(None)
        ELSE yahoo_loop(1, Min5(Len(timestamps), Len(opens.items), Len(highs.items),
                                Len(lows.items), Len(closes.items)),
                        timestamps, opens.items, highs.items, lows.items, closes.items,
                        volumes, sym)

\* The entries offered at an index of the arrays: two well-formed ones (the
\* second with a null volume), a null open, a NaN close, a text for the high,
\* a null timestamp, a NaN volume, and a low above the high.
ChartEntry(ts, o, h, l, c, v) == [ts |-> ts, open |-> o, high |-> h, low |-> l, close |-> c, volume |-> v]

ChartEntries ==
    {ChartEntry(PyI(1), PyI(1), PyI(2), PyI(1), PyI(2), PyI(1)),
     ChartEntry(PyI(2), PyF(4), PyF(4), PyF(3), PyF(3), PyNone),
     ChartEntry(PyI(1), PyNone, PyI(2), PyI(1), PyI(2), PyI(1)),
     ChartEntry(PyI(1), PyI(1), PyI(2), PyI(1), [t |-> "nan"], PyI(1)),
     ChartEntry(PyI(1), PyI(1), PyS("abc"), PyI(1), PyI(2), PyI(1)),
     ChartEntry(PyNone, PyI(1), PyI(2), PyI(1), PyI(2), PyI(1)),
     ChartEntry(PyI(1), PyI(1), PyI(2), PyI(1), PyI(2), [t |-> "nan"]),
     ChartEntry(PyI(1), PyI(1), PyI(1), PyI(2), PyI(1), PyI(1))}

RECURSIVE SeqsUpTo(_, _)
SeqsUpTo(S, n) ==
    IF n = 0 THEN {<<>>}
    ELSE LET shorter == SeqsUpTo(S, n - 1)
         IN  shorter \cup {Append(q, x) : q \in shorter, x \in S}

Column(es, k, len) == Array([i \in 1..len |-> es[i][k]])

\* the response whose arrays hold the entries es, the close array cut short
\* by cut entries, and the volume array whole, one short, absent or null
ChartResponse(top, es, cut, vol) ==
    [top |-> top,
     timestamp |-> Column(es, "ts", Len(es)),
     open |-> Column(es, "open", Len(es)),
     high |-> Column(es, "high", Len(es)),
     low |-> Column(es, "low", Len(es)),
     close |-> Column(es, "close", Max(0, Len(es) - cut)),
     volume |-> CASE vol = "whole" -> Column(es, "volume", Len(es))
                  [] vol = "short" -> Column(es, "volume", Max(0, Len(es) - 1))
                  [] vol = "absent" -> Absent
                  [] OTHER -> PyNone]

ChartResponses ==
    {ChartResponse("result[0]", es, cut, vol) :
        es \in SeqsUpTo(ChartEntries, MaxBars), cut \in {0, 1},
        vol \in {"whole", "short", "absent", "null"}}
    \cup {ChartResponse(top, <<>>, 0, "whole") :
            top \in {"no chart", "result null", "result empty", "result[0] null", "no quote"}}

InitYahoo ==
    /\ raw \in ChartResponses
    /\ symbol = <<"f">>
    /\ out = Pending
    /\ PROVIDER = SUPPORTED_PROVIDER
    /\ CACHE = <<>>
    /\ now = 0
    /\ call = NoCall
    /\ quotes = NoQuotes
    /\ look = NoLook

\* one call of normalize_yahoo_chart(raw, symbol)
NormalizeYahoo ==
    /\ out = Pending
    /\ out' = LET r == normalize_yahoo_chart(raw, symbol)
               IN  IF r.ok THEN Returned(r.val) ELSE Raised("normalize_yahoo_chart")
    /\ UNCHANGED <<raw, symbol, PROVIDER, CACHE, now, call, quotes, look>>

NextYahoo == NormalizeYahoo

SpecYahoo == InitYahoo /\ [][NextYahoo]_vars

(***************************************************************************)
(* app/signals/basic.py and app/signals/baseline.py. A column is a         *)
(* sequence of cells: [t |-> "nan"], or the number num/den as              *)
(* [t |-> "num", num, den] (den > 0). Prices are counted in halves, so a   *)
(* price cell p halves is p/2; the arithmetic is exact.                    *)
(***************************************************************************)
MaxSeries == 22     \* series of 0..MaxSeries bars are offered

NaNCell == [t |-> "nan", num |-> 0, den |-> 1]
Num(n, d) == [t |-> "num", num |-> n, den |-> d]
IsNaN(x) == x.t = "nan"

Neg(a) == IF IsNaN(a) THEN NaNCell ELSE Num(-a.num, a.den)
Add(a, b) ==
    IF IsNaN(a) \/ IsNaN(b) THEN NaNCell
    ELSE IF a.den = b.den THEN Num(a.num + b.num, a.den)
    ELSE Num(a.num * b.den + b.num * a.den, a.den * b.den)
Sub(a, b) == Add(a, Neg(b))
\* a / b for b # 0 (the divisors of this module are never zero when defined)
Div(a, b) ==
    IF IsNaN(a) \/ IsNaN(b) \/ b.num = 0 THEN NaNCell
    ELSE IF b.num > 0 THEN Num(a.num * b.den, a.den * b.num)
    ELSE Num(-(a.num * b.den), -(a.den * b.num))
IsZero(a) == ~IsNaN(a) /\ a.num = 0
Less(a, b) == ~IsNaN(a) /\ ~IsNaN(b) /\ a.num * b.den < b.num * a.den

\* Series.diff()
diff(s) == [i \in 1..Len(s) |-> IF i = 1 THEN NaNCell ELSE Sub(s[i], s[i - 1])]

\* Series.clip(lower=0.0) and Series.clip(upper=0.0): NaN stays NaN
clip_lower(s) == [i \in 1..Len(s) |-> IF ~IsNaN(s[i]) /\ s[i].num < 0 THEN Num(0, 1) ELSE s[i]]
clip_upper(s) == [i \in 1..Len(s) |-> IF ~IsNaN(s[i]) /\ s[i].num > 0 THEN Num(0, 1) ELSE s[i]]

RECURSIVE SumCells(_, _, _)
SumCells(s, a, b) == IF a > b THEN Num(0, 1) ELSE Add(s[a], SumCells(s, a + 1, b))

\* Series.rolling(n, min_periods=n).mean(): NaN until the window holds n numbers
rolling_mean(s, n) ==
    [i \in 1..Len(s) |->
        IF i < n \/ \E j \in (i - n + 1)..i : IsNaN(s[j]) THEN NaNCell
        ELSE Div(SumCells(s, i - n + 1, i), Num(n, 1))]

\* Series.pct_change(n)
pct_change(s, n) ==
    [i \in 1..Len(s) |-> IF i <= n THEN NaNCell ELSE Sub(Div(s[i], s[i - n]), Num(1, 1))]

\* Series.replace(0.0, np.nan)
replace_zero(s) == [i \in 1..Len(s) |-> IF IsZero(s[i]) THEN NaNCell ELSE s[i]]

\* basic._rsi
rsi(prices, period) ==
    LET delta == diff(prices)
        up == clip_lower(delta)
        down == [i \in 1..Len(delta) |-> Neg(clip_upper(delta)[i])]
        roll_up == rolling_mean(up, period)
        roll_down == rolling_mean(down, period)
        rs == [i \in 1..Len(prices) |-> Div(roll_up[i], replace_zero(roll_down)[i])]
    IN  [i \in 1..Len(prices) |->
            Sub(Num(100, 1), Div(Num(100, 1), Add(Num(1, 1), rs[i])))]

\* basic._sma and basic._ret
sma(s, n) == rolling_mean(s, n)
ret(s, n) == pct_change(s, n)

\* df.sort_values("ts"): the bars in the order of their timestamps
RECURSIVE InsertByTs(_, _)
InsertByTs(sorted, bar) ==
    IF sorted = <<>> THEN <<bar>>
    ELSE IF bar.ts.v < Head(sorted).ts.v THEN <<bar>> \o sorted
    ELSE <<Head(sorted)>> \o InsertByTs(Tail(sorted), bar)

RECURSIVE SortByTs(_)
SortByTs(bars) ==
    IF bars = <<>> THEN <<>> ELSE InsertByTs(SortByTs(SubSeq(bars, 1, Len(bars) - 1)), bars[Len(bars)])

\* the float of a validated bar as a cell (pd.to_numeric, astype(float))
Cell(f) == IF f.t = "fin" THEN Num(f.v, 2) ELSE NaNCell

\* _ensure_df for a list of validated bars: sorted by ts, the five columns
ensure_df(bars) ==
    LET df == SortByTs(bars)
    IN  [open |-> [i \in 1..Len(df) |-> Cell(df[i].open)],
         high |-> [i \in 1..Len(df) |-> Cell(df[i].high)],
         low |-> [i \in 1..Len(df) |-> Cell(df[i].low)],
         close |-> [i \in 1..Len(df) |-> Cell(df[i].close)],
         volume |-> [i \in 1..Len(df) |-> Num(df[i].volume, 1)]]

\* DataFrame.dropna().reset_index(drop=True): the rows without a NaN cell
dropna(df, n) ==
    LET rows == [i \in 1..n |-> [c \in DOMAIN df |-> df[c][i]]]
        Complete(row) == \A c \in DOMAIN row : ~IsNaN(row[c])
    IN  SelectSeq(rows, Complete)

\* build_features: the columns of df_feat before the warm-up rows are dropped
feature_columns(bars) ==
    LET df == ensure_df(bars)
        n == Len(bars)
        typ_price == [i \in 1..n |->
                        Div(Add(Add(df.high[i], df.low[i]), df.close[i]), Num(3, 1))]
    IN  [open |-> df.open, high |-> df.high, low |-> df.low, close |-> df.close,
         volume |-> df.volume,
         typ_price |-> typ_price,
         ret_1 |-> ret(df.close, 1),
         ret_3 |-> ret(df.close, 3),
         sma_5 |-> sma(df.close, 5),
         sma_10 |-> sma(df.close, 10),
         sma_20 |-> sma(df.close, 20),
         rsi_14 |-> rsi(df.close, 14),
         vol_10 |-> rolling_mean(df.volume, 10),
         tp_sma_10 |-> sma(typ_price, 10)]

\* build_features: the rows of the returned table
build_features(bars) == dropna(feature_columns(bars), Len(bars))

\* the sums of baseline._rsi14's loop over closes[i], i in range(from, len(closes))
RECURSIVE rsi14_loop(_, _, _, _)
rsi14_loop(closes, i, gains, losses) ==
    IF i > Len(closes) THEN [gains |-> gains, losses |-> losses]
    ELSE LET change == Sub(closes[i], closes[i - 1])
         IN  IF Less(Num(0, 1), change)
             THEN rsi14_loop(closes, i + 1, Add(gains, change), losses)
             ELSE rsi14_loop(closes, i + 1, gains, Sub(losses, change))

\* baseline._rsi14: None, or the value (closes[i] of the source is closes[i + 1] here)
rsi14(closes, period) ==
    IF Len(closes) <= period THEN PyNone
    ELSE LET sums == rsi14_loop(closes, Len(closes) - period + 2, Num(0, 1), Num(0, 1))
             avg_gain == Div(sums.gains, Num(period, 1))
             avg_loss == Div(sums.losses, Num(period, 1))
         IN  IF IsZero(avg_loss) THEN Num(100, 1)
             ELSE Sub(Num(100, 1), Div(Num(100, 1), Add(Num(1, 1), Div(avg_gain, avg_loss))))

\* The series offered: n bars whose closes start at 100.0 and move by d1 halves
\* a bar for the first k bars and by d2 halves a bar after that; a bar opens
\* at the close before it. Each bar is what validate_bar returns for it. The
\* list comes oldest bar first, or (for the series with k = 0) newest first.
SeriesClose(i, k, d1, d2) == 200 + d1 * Min(i - 1, k) + d2 * Max(0, i - 1 - k)

SeriesBar(i, k, d1, d2) ==
    LET c == SeriesClose(i, k, d1, d2)
        o == IF i = 1 THEN c ELSE SeriesClose(i - 1, k, d1, d2)
    IN  validate_bar([ts |-> PyI(Today + 300 * i), open |-> PyF(o), high |-> PyF(Max(o, c)),
                      low |-> PyF(Min(o, c)), close |-> PyF(c), volume |-> PyI(1000 + i)],
                     <<"f">>)

Reverse(q) == [i \in 1..Len(q) |-> q[Len(q) + 1 - i]]

SeriesInputs ==
    {[n |-> n, k |-> k, d1 |-> d1, d2 |-> d2, newest_first |-> r] :
        n \in 0..MaxSeries, k \in 0..MaxSeries, d1 \in {-1, 0, 1}, d2 \in {-1, 0, 1},
        r \in BOOLEAN}

\* the list of bars handed in
Series(x) ==
    LET bars == [i \in 1..x.n |-> SeriesBar(i, x.k, x.d1, x.d2)]
    IN  IF x.newest_first THEN Reverse(bars) ELSE bars

InitFeatures ==
    /\ raw \in {x \in SeriesInputs : x.k <= x.n /\ (x.newest_first => x.k = 0)}
    /\ symbol = <<"f">>
    /\ out = Pending
    /\ PROVIDER = SUPPORTED_PROVIDER
    /\ CACHE = <<>>
    /\ now = 0
    /\ call = NoCall
    /\ quotes = NoQuotes
    /\ look = NoLook

\* one call of build_features(series)
BuildFeatures ==
    /\ out = Pending
    /\ out' = [kind |-> "features", val |-> build_features(Series(raw))]
    /\ UNCHANGED <<raw, symbol, PROVIDER, CACHE, now, call, quotes, look>>

\* one call of _rsi(close, 14), as build_features makes it
Rsi ==
    /\ out = Pending
    /\ out' = [kind |-> "rsi", val |-> rsi(ensure_df(Series(raw)).close, 14)]
    /\ UNCHANGED <<raw, symbol, PROVIDER, CACHE, now, call, quotes, look>>

\* one call of _rsi14(closes, 14), as compute_features makes it
Rsi14 ==
    /\ out = Pending
    /\ out' = [kind |-> "rsi14", val |-> rsi14(ensure_df(Series(raw)).close, 14)]
    /\ UNCHANGED <<raw, symbol, PROVIDER, CACHE, now, call, quotes, look>>

NextFeatures == BuildFeatures \/ Rsi \/ Rsi14

SpecFeatures == InitFeatures /\ [][NextFeatures]_vars

(***************************************************************************)
(* app/ml/build_dataset.py: add_features, the feature builder of the       *)
(* training set, next to build_features on the same bars. A standard       *)
(* deviation is kept as the variance it is the square root of. The rsi_14  *)
(* column comes from the ta package (RSIIndicator) and is left out.        *)
(***************************************************************************)
MaxTrain == 11      \* series of 0..MaxTrain bars are offered to both builders

RECURSIVE Gcd(_, _)
Gcd(a, b) == IF b = 0 THEN a ELSE Gcd(b, a % b)
Abs(n) == IF n < 0 THEN -n ELSE n

\* the same number in lowest terms
Reduce(a) ==
    IF IsNaN(a) THEN a
    ELSE IF a.num = 0 THEN Num(0, 1)
    ELSE LET g == Gcd(Abs(a.num), a.den) IN Num(a.num \div g, a.den \div g)

Mul(a, b) == IF IsNaN(a) \/ IsNaN(b) THEN NaNCell ELSE Reduce(Num(a.num * b.num, a.den * b.den))

RECURSIVE SumReduced(_, _, _)
SumReduced(s, a, b) ==
    IF a > b THEN Num(0, 1) ELSE Reduce(Add(Reduce(s[a]), SumReduced(s, a + 1, b)))

\* the square root of the number v >= 0
Sqrt(v) == [t |-> "sqrt", num |-> v.num, den |-> v.den]

\* Series.rolling(n).std(): the sample standard deviation (ddof = 1) of the
\* window, NaN until the window holds n numbers
rolling_std(s, n) ==
    [i \in 1..Len(s) |->
        IF i < n \/ \E j \in (i - n + 1)..i : IsNaN(s[j]) THEN NaNCell
        ELSE LET mean == Reduce(Div(SumReduced(s, i - n + 1, i), Num(n, 1)))
                 sq == [j \in 1..Len(s) |->
                           IF j < i - n + 1 \/ j > i THEN Num(0, 1)
                           ELSE LET d == Reduce(Sub(Reduce(s[j]), mean)) IN Mul(d, d)]
             IN  Sqrt(Reduce(Div(SumReduced(sq, i - n + 1, i), Num(n - 1, 1))))]

\* add_features(df): the columns added
add_features(df) ==
    LET n == Len(df.close)
        ret_1 == pct_change(df.close, 1)
        typ_price == [i \in 1..n |->
                        Div(Add(Add(df.high[i], df.low[i]), df.close[i]), Num(3, 1))]
    IN  [ret_1 |-> ret_1,
         ret_3 |-> pct_change(df.close, 3),
         sma_5 |-> rolling_mean(df.close, 5),
         sma_10 |-> rolling_mean(df.close, 10),
         sma_20 |-> rolling_mean(df.close, 20),
         vol_10 |-> rolling_std(ret_1, 10),
         typ_price |-> typ_price,
         tp_sma_10 |-> rolling_mean(typ_price, 10)]

\* The series offered: n bars five minutes apart; the first k close at c1
\* halves with volume v1, the others at c2 halves with volume v2.
TrainCloses == {200, 400}
TrainVolumes == {0, 1}

TrainInputs ==
    {[n |-> n, k |-> k, c1 |-> c1, c2 |-> c2, v1 |-> v1, v2 |-> v2] :
        n \in 0..MaxTrain, k \in 0..MaxTrain, c1 \in TrainCloses, c2 \in TrainCloses,
        v1 \in TrainVolumes, v2 \in TrainVolumes}

TrainBar(x, i) ==
    LET c == IF i <= x.k THEN x.c1 ELSE x.c2
        v == IF i <= x.k THEN x.v1 ELSE x.v2
    IN  validate_bar([ts |-> PyI(Today + 300 * i), open |-> PyF(c), high |-> PyF(c),
                      low |-> PyF(c), close |-> PyF(c), volume |-> PyI(v)], <<"f">>)

TrainSeries(x) == [i \in 1..x.n |-> TrainBar(x, i)]

InitTraining ==
    /\ raw \in {x \in TrainInputs : x.k <= x.n}
    /\ symbol = <<"f">>
    /\ out = Pending
    /\ PROVIDER = SUPPORTED_PROVIDER
    /\ CACHE = <<>>
    /\ now = 0
    /\ call = NoCall
    /\ quotes = NoQuotes
    /\ look = NoLook

\* one call of add_features on the frame of the series
AddFeatures ==
    /\ out = Pending
    /\ out' = [kind |-> "add_features", val |-> add_features(ensure_df(TrainSeries(raw)))]
    /\ UNCHANGED <<raw, symbol, PROVIDER, CACHE, now, call, quotes, look>>

\* one call of build_features on the series, up to the dropping of rows
FeatureColumns ==
    /\ out = Pending
    /\ out' = [kind |-> "build_features", val |-> feature_columns(TrainSeries(raw))]
    /\ UNCHANGED <<raw, symbol, PROVIDER, CACHE, now, call, quotes, look>>

NextTraining == AddFeatures \/ FeatureColumns

SpecTraining == InitTraining /\ [][NextTraining]_vars

(***************************************************************************)
(* app/ml/infer.py, and the scoring of app/routers/serve.py and            *)
(* app/ml/predict.py from the feature table on. The predictor is           *)
(*   [feature_names, threshold : the two keys of model_meta.json,          *)
(*    scaler_n, model_n : the n_features_in_ of the scaler and the model,  *)
(*    kind : the scoring method the model has, answer : what it returns    *)
(*    for each row]                                                        *)
(* and a feature table is [cols, n]: its column names in order and its     *)
(* number of rows; the cell of column c in row r is <<c, r>>.              *)
(* Probabilities and thresholds are floats counted in halves.              *)
(***************************************************************************)
MaxRows == 2        \* feature tables of 0..MaxRows rows are offered

\* a column of the table, as DataFrame.to_numpy hands it over
Col(c, n) == [r \in 1..n |-> <<c, r>>]

\* Predictor.feature_names: the declared list, <<>> standing for None
feature_names(meta_names) ==
    IF meta_names.t = "array" /\ meta_names.items # <<>> THEN meta_names.items ELSE <<>>

\* expected, with the model's width preferred to the scaler's
expected_width_model_first(scaler_n, model_n) ==
    IF model_n.t # "absent" /\ PyInt(model_n).ok THEN PyI(PyInt(model_n).val)
    ELSE IF scaler_n.t # "absent" /\ PyInt(scaler_n).ok THEN PyI(PyInt(scaler_n).val)
    ELSE PyNone

\* expected: int(scaler.n_features_in_) if the scaler has it, else
\* int(model.n_features_in_) if the model has it, else None
expected_width(scaler_n, model_n) ==
    IF scaler_n.t # "absent" /\ PyInt(scaler_n).ok THEN PyI(PyInt(scaler_n).val)
    ELSE IF model_n.t # "absent" /\ PyInt(model_n).ok THEN PyI(PyInt(model_n).val)
    ELSE PyNone

InCols(c, cols) == \E i \in 1..Len(cols) : cols[i] = c

\* missing, cut down to its first name
missing_columns_first(names, cols) ==
    LET Missing(c) == ~InCols(c, cols)
        all == SelectSeq(names, Missing)
    IN  IF all = <<>> THEN <<>> ELSE <<Head(all)>>

\* [c for c in self.feature_names if c not in X.columns]
missing_columns(names, cols) ==
    LET Missing(c) == ~InCols(c, cols) IN SelectSeq(names, Missing)

Failure(err, missing, expected, got) ==
    [ok |-> FALSE, err |-> err, missing |-> missing, expected |-> expected, got |-> got]

\* _prepare_features taking the table as it is, whatever the declared names
prepare_features_as_is(pred, X) ==
    LET expected == expected_width(pred.scaler_n, pred.model_n)
        X_arr == [i \in 1..Len(X.cols) |-> Col(X.cols[i], X.n)]
    IN  IF expected.t # "none" /\ Len(X_arr) # expected.v
        THEN Failure("Feature dimension mismatch", <<>>, expected.v, Len(X_arr))
        ELSE Ok(X_arr)

\* Predictor._prepare_features for a DataFrame: Ok(X_arr), the matrix as the
\* sequence of its columns, or the ValueError raised
prepare_features(pred, X) ==
    LET expected == expected_width(pred.scaler_n, pred.model_n)
        names == feature_names(pred.feature_names)
        missing == missing_columns(names, X.cols)
        X_arr == IF names # <<>>
                 THEN [i \in 1..Len(names) |-> Col(names[i], X.n)]
                 ELSE [i \in 1..Len(X.cols) |-> Col(X.cols[i], X.n)]
    IN  IF names # <<>> /\ missing # <<>>
        THEN Failure("Missing required feature columns", missing, 0, 0)
        ELSE IF expected.t # "none" /\ Len(X_arr) # expected.v
        THEN Failure("Feature dimension mismatch", <<>>, expected.v, Len(X_arr))
        ELSE Ok(X_arr)

\* 1.0 / (1.0 + np.exp(-s)) for the scores offered: exp overflows to inf at
\* -1000 and underflows to 0 at 1000
Sigmoid(s) == IF s <= -1000 THEN 0 ELSE IF s >= 1000 THEN 2 ELSE 1

\* the probabilities the model gives for the rows: predict_proba(...)[:, 1],
\* the sigmoid of decision_function(...), or predict(...).astype(float)
model_proba(kind, answer) ==
    [r \in 1..Len(answer) |->
        CASE kind = "predict_proba" -> Fin(answer[r])
          [] kind = "decision_function" -> Fin(Sigmoid(answer[r]))
          [] OTHER -> Fin(2 * answer[r])]

\* Predictor.predict_proba: the probabilities or the error, with the matrices
\* handed to scaler.transform and the number of runs of the model
predict_proba(pred, X) ==
    LET X_arr == prepare_features(pred, X)
    IN  IF ~X_arr.ok
        THEN [ok |-> FALSE, err |-> X_arr.err, missing |-> X_arr.missing,
              expected |-> X_arr.expected, got |-> X_arr.got,
              scaler_in |-> <<>>, model_runs |-> 0]
        ELSE [ok |-> TRUE, val |-> model_proba(pred.kind, pred.answer),
              scaler_in |-> <<X_arr.val>>, model_runs |-> 1]

\* the threshold of predict, with "threshold or meta" in place of the None test
predict_threshold_falsy(threshold, meta_threshold) ==
    IF ~Truthy(threshold)
    THEN PyFloat(IF meta_threshold.t = "absent" THEN PyF(1) ELSE meta_threshold).val
    ELSE PyFloat(threshold).val

\* if threshold is None: threshold = float(self._meta.get("threshold", 0.5))
predict_threshold(threshold, meta_threshold) ==
    IF threshold.t = "none"
    THEN PyFloat(IF meta_threshold.t = "absent" THEN PyF(1) ELSE meta_threshold).val
    ELSE PyFloat(threshold).val

\* (p >= threshold).astype(int)
labels(p, threshold) == [r \in 1..Len(p) |-> IF FloatLe(threshold, p[r]) THEN 1 ELSE 0]

\* Predictor.predict
predict(pred, X, threshold) ==
    LET p == predict_proba(pred, X)
    IN  IF ~p.ok THEN p
        ELSE [ok |-> TRUE,
              val |-> labels(p.val, predict_threshold(threshold, pred.threshold)),
              used |-> predict_threshold(threshold, pred.threshold),
              scaler_in |-> p.scaler_in, model_runs |-> p.model_runs]

\* the count of the rows labelled v or more
count_pred_at_least(pred, v) == Cardinality({r \in 1..Len(pred) : pred[r] >= v})

\* int((pred == v).sum())
count_pred(pred, v) == Cardinality({r \in 1..Len(pred) : pred[r] = v})

\* float(req.threshold if req.threshold is not None else meta.get("threshold", 0.5))
response_threshold(threshold, meta_threshold) ==
    PyFloat(IF threshold.t # "none" THEN threshold
            ELSE IF meta_threshold.t = "absent" THEN PyF(1) ELSE meta_threshold).val

NoFailure == [err |-> "", missing |-> <<>>, expected |-> 0, got |-> 0]
NoResponse == [n_rows_scored |-> 0]

\* how a call on the predictor ended
Scored(op, kind, f, scaler_in, model_runs, proba, pred, used, response) ==
    [op |-> op, kind |-> kind, err |-> f.err, missing |-> f.missing,
     expected |-> f.expected, got |-> f.got, scaler_in |-> scaler_in,
     model_runs |-> model_runs, proba |-> proba, pred |-> pred, used |-> used,
     response |-> response]

\* score (serve.py) and main (predict.py) from the feature table on: the two
\* calls on the predictor and the response built from them
score(op, pred, X, threshold) ==
    LET proba == predict_proba(pred, X)
        p == predict(pred, X, threshold)
    IN  IF ~proba.ok
        THEN Scored(op, "raise", proba, <<>>, 0, <<>>, <<>>, Fin(0), NoResponse)
        ELSE IF X.n = 0                                     \* proba[-1]: IndexError
        THEN Scored(op, "raise", [NoFailure EXCEPT !.err = "IndexError"],
                    proba.scaler_in \o p.scaler_in, proba.model_runs + p.model_runs,
                    proba.val, p.val, p.used, NoResponse)
        ELSE Scored(op, "return", NoFailure, proba.scaler_in \o p.scaler_in,
                    proba.model_runs + p.model_runs, proba.val, p.val, p.used,
                    [n_rows_scored |-> X.n,
                     threshold |-> response_threshold(threshold, pred.threshold),
                     last |-> [proba |-> proba.val[Len(proba.val)],
                               pred |-> p.val[Len(p.val)]],
                     counts |-> [pred_0 |-> count_pred(p.val, 0),
                                 pred_1 |-> count_pred(p.val, 1)]])

\* The predictors, tables and requests offered.
TableCols ==
    {<<"ret_1", "rsi_14">>, <<"rsi_14", "ret_1">>, <<"close", "rsi_14", "ret_1">>,
     <<"ret_1">>, <<"close">>, <<"ret_1", "rsi_14", "sma_5">>}

DeclaredNames ==
    {Absent, Array(<<>>), Array(<<"ret_1", "rsi_14">>), Array(<<"rsi_14", "ret_1">>),
     Array(<<"ret_1", "rsi_14", "sma_5">>)}

ModelAnswers(kind) ==
    CASE kind = "predict_proba" -> {0, 1, 2}
      [] kind = "decision_function" -> {-1000, 0}
      [] OTHER -> {0, 1}

Predictors ==
    UNION {[feature_names : DeclaredNames, threshold : {Absent, PyF(2)},
            scaler_n : {Absent, PyI(2), PyI(3)}, model_n : {Absent, PyI(2)},
            kind : {kind}, answer : [1..n -> ModelAnswers(kind)]] :
              kind \in {"predict_proba", "decision_function", "predict"}, n \in 0..MaxRows}

ScoreInputs ==
    {[pred |-> pred, X |-> [cols |-> cols, n |-> Len(pred.answer)], threshold |-> threshold] :
        pred \in Predictors, cols \in TableCols, threshold \in {PyNone, PyF(0), PyF(1)}}

InitScore ==
    /\ raw \in ScoreInputs
    /\ symbol = <<"f">>
    /\ out = Pending
    /\ PROVIDER = SUPPORTED_PROVIDER
    /\ CACHE = <<>>
    /\ now = 0
    /\ call = NoCall
    /\ quotes = NoQuotes
    /\ look = NoLook

\* one call of predictor.predict_proba(X)
PredictProba ==
    /\ out = Pending
    /\ out' = LET p == predict_proba(raw.pred, raw.X)
               IN  IF p.ok
                   THEN Scored("predict_proba", "return", NoFailure, p.scaler_in,
                               p.model_runs, p.val, <<>>, Fin(0), NoResponse)
                   ELSE Scored("predict_proba", "raise", p, <<>>, 0, <<>>, <<>>, Fin(0),
                               NoResponse)
    /\ UNCHANGED <<raw, symbol, PROVIDER, CACHE, now, call, quotes, look>>

\* one call of predictor.predict(X, threshold)
Predict ==
    /\ out = Pending
    /\ out' = LET p == predict(raw.pred, raw.X, raw.threshold)
               IN  IF p.ok
                   THEN Scored("predict", "return", NoFailure, p.scaler_in, p.model_runs,
                               model_proba(raw.pred.kind, raw.pred.answer), p.val, p.used,
                               NoResponse)
                   ELSE Scored("predict", "raise", p, <<>>, 0, <<>>, <<>>, Fin(0), NoResponse)
    /\ UNCHANGED <<raw, symbol, PROVIDER, CACHE, now, call, quotes, look>>

\* POST /api/v1/score, from the feature table on
ScoreApi ==
    /\ out = Pending
    /\ out' = score("score", raw.pred, raw.X, raw.threshold)
    /\ UNCHANGED <<raw, symbol, PROVIDER, CACHE, now, call, quotes, look>>

\* python -m app.ml.predict, from the feature table on
ScoreCli ==
    /\ out = Pending
    /\ out' = score("main", raw.pred, raw.X, raw.threshold)
    /\ UNCHANGED <<raw, symbol, PROVIDER, CACHE, now, call, quotes, look>>

NextScore == PredictProba \/ Predict \/ ScoreApi \/ ScoreCli

SpecScore == InitScore /\ [][NextScore]_vars

(***************************************************************************)
(* Interval texts: one text per behaviour, handed to _normalize_interval   *)
(* and, as the interval argument, to fetch_market_data (between calls with *)
(* the plain text "5m", which fill the cache).                             *)
(***************************************************************************)
IntervalPads == {<<>>, <<" ">>, <<"\t", " ">>}

IntervalCores ==
    ALLOWED_INTERVALS \cup {Upper(s) : s \in ALLOWED_INTERVALS}
        \cup {<<>>, <<"5">>, <<"5", "5">>, <<"7", "m">>, <<"5", " ", "m">>, <<"m", "5">>,
              <<"1", "w">>}

IntervalTexts ==
    {pre \o core \o post : pre \in IntervalPads, core \in IntervalCores, post \in IntervalPads}

InitInterval ==
    /\ raw \in IntervalTexts
    /\ symbol = <<"f">>
    /\ out = Pending
    /\ PROVIDER = SUPPORTED_PROVIDER
    /\ CACHE = <<>>
    /\ now = 0
    /\ call = NoCall
    /\ quotes = NoQuotes
    /\ look = NoLook

\* one call of _normalize_interval(raw)
NormalizeInterval ==
    /\ out = Pending
    /\ out' = LET r == normalize_interval(raw)
               IN  IF r.ok THEN Returned(r.val) ELSE Raised("unsupported interval")
    /\ UNCHANGED <<raw, symbol, PROVIDER, CACHE, now, call, quotes, look>>

\* one synthetic call of fetch_market_data with the text, or with "5m"
FetchInterval ==
    \E interval \in {raw, <<"5", "m">>}, use_cache \in BOOLEAN :
        LET a == [symbol |-> symbol, interval |-> interval, limit |-> 5, synthetic |-> 1,
                  mode |-> "flat", use_cache |-> use_cache]
            r == fetch_market_data(CACHE, PROVIDER, a, now, "none")
        IN  /\ CACHE' = r.cache
            /\ call' = r.call
            /\ UNCHANGED <<raw, symbol, out, PROVIDER, now, quotes, look>>

NextInterval == NormalizeInterval \/ FetchInterval \/ Tick

SpecInterval == InitInterval /\ [][NextInterval]_vars

(***************************************************************************)
(* app/ml/train_eval.py: the --save_artifacts step of main, and the        *)
(* Predictor constructed from the files of data/ afterwards. A JSON object *)
(* is a function from its keys to its values; a file that does not exist   *)
(* is Absent.                                                              *)
(***************************************************************************)
FEATURES ==
    <<"ret_1", "ret_3", "sma_5", "sma_10", "sma_20", "rsi_14", "vol_10", "typ_price",
      "tp_sma_10">>
TARGET == "target_up_next_N"

\* dict.get(k): Absent stands for the None of a missing key
MetaGet(meta, k) == IF k \in DOMAIN meta THEN meta[k] ELSE Absent

\* main from the fitting on: the files of data/ after the run. The scaler and
\* the model are fitted on X = df[FEATURES].values.
train_eval_main(args, disk) ==
    IF args.save_artifacts
    THEN [model |-> [kind |-> "LogisticRegression", n_features_in |-> Len(FEATURES),
                     C |-> args.C, max_iter |-> args.max_iter],
          scaler |-> [kind |-> "StandardScaler", n_features_in |-> Len(FEATURES)],
          meta |-> [features |-> Array(FEATURES),
                    target |-> TARGET,
                    threshold |-> PyF(args.threshold),
                    model |-> "LogisticRegression",
                    params |-> [C |-> args.C, max_iter |-> args.max_iter,
                                class_weight |-> "balanced"],
                    dataset_path |-> args.dataset_path]]
    ELSE disk

\* Predictor(): _load, raising when a file is missing, and what the
\* properties and _prepare_features read off the loaded artifacts
Predictor(disk) ==
    IF disk.model = Absent \/ disk.scaler = Absent \/ disk.meta = Absent THEN Raise
    ELSE Ok([feature_names |-> MetaGet(disk.meta, "feature_names"),
             threshold |-> MetaGet(disk.meta, "threshold"),
             scaler_n |-> PyI(disk.scaler.n_features_in),
             model_n |-> PyI(disk.model.n_features_in),
             kind |-> "predict_proba"])

\* the columns of the table build_features returns, in their order
ServingColumns ==
    <<"open", "high", "low", "close", "volume", "typ_price", "ret_1", "ret_3", "sma_5",
      "sma_10", "sma_20", "rsi_14", "vol_10", "tp_sma_10">>

\* The runs offered, and what data/ held before: nothing, or the artifacts of
\* an earlier model whose meta declares feature_names or declares nothing.
EarlierArtifacts(meta) ==
    [model |-> [kind |-> "LogisticRegression", n_features_in |-> 2, C |-> 1, max_iter |-> 100],
     scaler |-> [kind |-> "StandardScaler", n_features_in |-> 2],
     meta |-> meta]

Disks ==
    {[model |-> Absent, scaler |-> Absent, meta |-> Absent],
     EarlierArtifacts([feature_names |-> Array(<<"ret_1", "rsi_14">>), threshold |-> PyF(1)]),
     EarlierArtifacts([model |-> "LogisticRegression"])}

TrainArgs ==
    [threshold : 0..2, save_artifacts : BOOLEAN, C : {1, 2}, max_iter : {100, 1000},
     dataset_path : {"data/dataset_AAPL_5m.parquet"}]

InitArtifacts ==
    /\ raw \in [args : TrainArgs, disk : Disks, rows : 0..MaxRows]
    /\ symbol = <<"f">>
    /\ out = Pending
    /\ PROVIDER = SUPPORTED_PROVIDER
    /\ CACHE = <<>>
    /\ now = 0
    /\ call = NoCall
    /\ quotes = NoQuotes
    /\ look = NoLook

\* one run of python -m app.ml.train_eval
TrainEval ==
    /\ out = Pending
    /\ out' = [kind |-> "trained", disk |-> train_eval_main(raw.args, raw.disk)]
    /\ UNCHANGED <<raw, symbol, PROVIDER, CACHE, now, call, quotes, look>>

\* Predictor() after the run
Construct ==
    /\ out.kind = "trained"
    /\ out' = [kind |-> "constructed", disk |-> out.disk, pred |-> Predictor(out.disk)]
    /\ UNCHANGED <<raw, symbol, PROVIDER, CACHE, now, call, quotes, look>>

\* _prepare_features of that predictor on a table of build_features
Prepare ==
    /\ out.kind = "constructed"
    /\ out.pred.ok
    /\ out' = [kind |-> "prepared", disk |-> out.disk, pred |-> out.pred,
               X_arr |-> prepare_features(out.pred.val,
                                          [cols |-> ServingColumns, n |-> raw.rows])]
    /\ UNCHANGED <<raw, symbol, PROVIDER, CACHE, now, call, quotes, look>>

NextArtifacts == TrainEval \/ Construct \/ Prepare

SpecArtifacts == InitArtifacts /\ [][NextArtifacts]_vars

(***************************************************************************)
(* app/routers/serve.py: POST /api/v1/score, the whole handler. The fetch  *)
(* is taken by its outcome (the series returned or the exception raised),  *)
(* the features are built from the series, the predictor is constructed    *)
(* from the artifacts and the reply is the response or an HTTPException.   *)
(***************************************************************************)
\* the one element of a set of one: a value worked out once and then named
The(S) == CHOOSE x \in S : TRUE

\* how the handler answered; candles and rows: the length of the series
\* fetched and of the feature table built, -1 when the stage was not reached
Http(status, detail, body, candles, rows) ==
    [kind |-> "http", status |-> status, detail |-> detail, body |-> body,
     candles |-> candles, rows |-> rows]

\* the answers the model gives for the rows of a table of n rows
Answering(pred, n) == [pred EXCEPT !.answer = [r \in 1..n |-> pred.answer]]

\* score answering an empty feature table with a response of no rows
http_score_empty_200(req, fetched, loaded) ==
    IF ~fetched.ok THEN Http(400, fetched.err, NoResponse, -1, -1)
    ELSE The({LET X == [cols |-> ServingColumns, n |-> n]
              IN  IF ~loaded.ok THEN Http(400, loaded.err, NoResponse, Len(fetched.val), n)
                  ELSE IF n = 0 THEN Http(200, "", NoResponse, Len(fetched.val), n)
                  ELSE The({IF s.kind = "raise"
                            THEN Http(400, s.err, NoResponse, Len(fetched.val), n)
                            ELSE Http(200, "", s.response, Len(fetched.val), n) :
                              s \in {score("score", Answering(loaded.val, n), X, req.threshold)}}) :
                n \in {Len(build_features(fetched.val))}})

\* score(req): everything runs inside try / except Exception, which raises
\* HTTPException(status_code=400, detail=str(e))
http_score(req, fetched, loaded) ==
    IF ~fetched.ok THEN Http(400, fetched.err, NoResponse, -1, -1)
    ELSE The({LET X == [cols |-> ServingColumns, n |-> n]
              IN  IF ~loaded.ok THEN Http(400, loaded.err, NoResponse, Len(fetched.val), n)
                  ELSE The({IF s.kind = "raise"
                            THEN Http(400, s.err, NoResponse, Len(fetched.val), n)
                            ELSE Http(200, "", s.response, Len(fetched.val), n) :
                              s \in {score("score", Answering(loaded.val, n), X, req.threshold)}}) :
                n \in {Len(build_features(fetched.val))}})

\* The requests offered. A synthetic fetch returns limit candles; a live
\* fetch returns limit candles or none; either may raise. The closes of the
\* series fall or rise by half a unit a bar and turn at the tenth bar.
Erred(e) == [ok |-> FALSE, err |-> e]

ScoreRequests ==
    [limit : 1..MaxSeries, synthetic : {0, 1}, threshold : {PyNone, PyF(1)}]

FetchOutcomes(req) ==
    {Erred("ValueError: Unsupported interval"), Erred("RuntimeError: fetch failed")}
    \cup {Ok(Series([n |-> req.limit, k |-> Min(10, req.limit), d1 |-> d1, d2 |-> d2,
                     newest_first |-> FALSE])) : d1 \in {-1, 1}, d2 \in {-1, 1}}
    \cup (IF req.synthetic = 0 THEN {Ok(<<>>)} ELSE {})

LoadOutcomes ==
    {Erred("FileNotFoundError: data/scaler.pkl")}
    \cup {Ok([feature_names |-> names, threshold |-> Absent, scaler_n |-> PyI(w),
              model_n |-> PyI(w), kind |-> "predict_proba", answer |-> a]) :
            names \in {Absent, Array(FEATURES)},
            w \in {Len(FEATURES), Len(ServingColumns)}, a \in {0, 2}}

InitRequest ==
    /\ \E req \in ScoreRequests, l \in LoadOutcomes :
          \E f \in FetchOutcomes(req) : raw = [req |-> req, fetched |-> f, loaded |-> l]
    /\ symbol = <<"f">>
    /\ out = Pending
    /\ PROVIDER = SUPPORTED_PROVIDER
    /\ CACHE = <<>>
    /\ now = 0
    /\ call = NoCall
    /\ quotes = NoQuotes
    /\ look = NoLook

\* one POST /api/v1/score
PostScore ==
    /\ out = Pending
    /\ out' = http_score(raw.req, raw.fetched, raw.loaded)
    /\ UNCHANGED <<raw, symbol, PROVIDER, CACHE, now, call, quotes, look>>

NextRequest == PostScore

SpecRequest == InitRequest /\ [][NextRequest]_vars

(***************************************************************************)
(* app/routers/serve.py: _call_fetcher_flex around GET_SERIES, which is    *)
(* data_client.get_series = fetch_market_data. Each attempt calls the      *)
(* fetcher with one shape of arguments and runs the coroutine inside the   *)
(* try, so a TypeError is caught whether the call could not be bound or    *)
(* the body of the fetcher raised it. A provider answer is its status and, *)
(* for a 200, how normalize_yahoo_chart ends on its body: int(None) or     *)
(* len(None) raise TypeError, int("abc") raises ValueError.                *)
(***************************************************************************)
MaxAttempts == 8    \* the five keyword shapes and the three positional shapes

\* the arguments fetch_market_data runs with under attempt i, its defaults
\* filled in; shapes 5 and 8 pass the symbol alone and cannot be bound
FlexShape(req, i) ==
    LET full(limit, synthetic, mode) ==
            [bound |-> TRUE,
             args |-> [symbol |-> req.symbol, interval |-> req.interval, limit |-> limit,
                       synthetic |-> synthetic, mode |-> mode, use_cache |-> TRUE]]
    IN  CASE i = 1 -> full(req.limit, req.synthetic, req.mode)
          [] i = 2 -> full(120, req.synthetic, req.mode)
          [] i \in {3, 6} -> full(req.limit, 0, "flat")
          [] i \in {4, 7} -> full(120, 0, "flat")
          [] OTHER -> [bound |-> FALSE]

ParseEnds == {"ok", "TypeError", "ValueError"}

\* fetch_market_data answered by ans = [status, parse]
fetch_answered(cache, provider, a, t, ans) ==
    IF MakesRequest(cache, provider, a, t) /\ ans.status = "200" /\ ans.parse # "ok"
    THEN LET ni == normalize_interval(a.interval)
             key == CacheKey(Upper(a.symbol), ni.val, a.limit, a.synthetic, a.mode)
         IN  [cache |-> cache_get(cache, key, t).cache,
              call |-> Ended(a, t, key, "raise", ans.parse, NoPayload, FALSE, 0, ans.status,
                             <<>>, FALSE, 0)]
    ELSE fetch_market_data(cache, provider, a, t, ans.status)

\* how _call_fetcher_flex ended: calls, the shapes whose call ran the body of
\* the fetcher; requests, the provider requests made
Flexed(kind, err, payload, calls, requests, cache) ==
    [kind |-> kind, err |-> err, payload |-> payload, calls |-> calls,
     requests |-> requests, cache |-> cache]

\* the attempts from shape i on; answers[k] is the provider's answer to the
\* k-th request of the whole call
RECURSIVE flex_loop(_, _, _, _, _, _, _, _)
flex_loop(i, req, cache, provider, t, answers, calls, requests) ==
    IF i > MaxAttempts
    THEN Flexed("raise", "TypeError: Could not call series fetcher", NoPayload, calls,
                requests, cache)
    ELSE LET shape == FlexShape(req, i)
         IN  IF ~shape.bound
             THEN flex_loop(i + 1, req, cache, provider, t, answers, calls, requests)
             ELSE LET asks == MakesRequest(cache, provider, shape.args, t)
                      ans == IF asks THEN answers[requests + 1]
                             ELSE [status |-> "none", parse |-> "ok"]
                      r == fetch_answered(cache, provider, shape.args, t, ans)
                      n == IF asks THEN requests + 1 ELSE requests
                  IN  IF r.call.kind = "return"
                      THEN Flexed("return", "", r.call.payload, Append(calls, i), n, r.cache)
                      ELSE IF r.call.err = "TypeError"
                      THEN flex_loop(i + 1, req, r.cache, provider, t, answers,
                                     Append(calls, i), n)
                      ELSE Flexed("raise", r.call.err, NoPayload, Append(calls, i), n,
                                  r.cache)

call_fetcher_flex(req, cache, provider, t, answers) ==
    flex_loop(1, req, cache, provider, t, answers, <<>>, 0)

\* The requests offered, and the provider: its first k answers are one
\* answer, its later answers another.
ProviderAnswers ==
    {ans \in [status : Responses, parse : ParseEnds] :
        ans.parse # "ok" => ans.status = "200"}

FlexRequests ==
    [symbol : Symbols, interval : {<<"5", "m">>, <<"7", "m">>}, limit : {5, 120},
     synthetic : {0, 1}, mode : Modes]

InitFlex ==
    /\ raw \in [req : FlexRequests, k : 0..MaxAttempts, first : ProviderAnswers,
                rest : ProviderAnswers]
    /\ symbol = <<"f">>
    /\ out = Pending
    /\ PROVIDER \in Providers
    /\ CACHE = <<>>
    /\ now = 0
    /\ call = NoCall
    /\ quotes = NoQuotes
    /\ look = NoLook

\* one call of _call_fetcher_flex, as score makes it
CallFetcherFlex ==
    /\ out = Pending
    /\ LET answers == [n \in 1..MaxAttempts |-> IF n <= raw.k THEN raw.first ELSE raw.rest]
           r == call_fetcher_flex(raw.req, CACHE, PROVIDER, now, answers)
       IN  /\ out' = [r EXCEPT !.kind = "flex:" \o r.kind]
           /\ CACHE' = r.cache
    /\ UNCHANGED <<raw, symbol, PROVIDER, now, call, quotes, look>>

NextFlex == CallFetcherFlex

SpecFlex == InitFlex /\ [][NextFlex]_vars

(***************************************************************************)
(* app/routes_stream.py and app/routes_backtest.py: the two loops around   *)
(* POST /api/v1/score, one step per await. out holds the handler's locals  *)
(* (pc: where it stands; i: the iteration; records: the records appended   *)
(* or the frames yielded), call holds the caller's connection and the      *)
(* score calls started. request.is_disconnected() reads the connection as  *)
(* it is at the check.                                                     *)
(***************************************************************************)
MaxSteps == 3       \* a replay of 1..MaxSteps steps, a stream of up to MaxSteps frames

\* the loop leaving the check to go on, whatever request.is_disconnected() says
loop_goes_on_always(disconnected) == TRUE

\* if await request.is_disconnected(): break
loop_goes_on(disconnected) == ~disconnected

\* limit_i with the step counted from one
limit_i_from_one(body, i) == body.window + (i + 1) * body.step_size

\* limit_i = body.window + i * body.step_size
limit_i(body, i) == body.window + i * body.step_size

\* the JSON of a reply of the score endpoint, or the {"error": str(e)} put in
\* its place when the call raised
ScoreData(p) ==
    [last |-> [pred |-> p], counts |-> [pred_0 |-> 1 - p, pred_1 |-> p],
     artifact_hashes |-> "a1"]
ErrorData == [error |-> PyS("HTTPStatusError")]
ScoreReplies == {ScoreData(0), ScoreData(1), ErrorData}

\* data.get(k): None for a missing key
DataGet(data, k) == IF k \in DOMAIN data THEN data[k] ELSE PyNone

\* rec of backtest for step i
backtest_record(i, limit, data) ==
    [step |-> i, limit |-> limit, last |-> DataGet(data, "last"),
     counts |-> IF "counts" \in DOMAIN data THEN data.counts ELSE <<>>,
     error |-> DataGet(data, "error")]

\* the counting loop over records and the report
backtest_report(records) ==
    LET HasPred(r, p) == r.last # PyNone /\ r.last.pred = p
    IN  [n_steps |-> Len(records),
         summary |-> [last_pred_0 |-> Len(SelectSeq(records, LAMBDA r : HasPred(r, 0))),
                      last_pred_1 |-> Len(SelectSeq(records, LAMBDA r : HasPred(r, 1)))],
         records |-> records]

NoReport == [n_steps |-> -1]

Locals(pc, i, records, report) == [pc |-> pc, i |-> i, records |-> records, report |-> report]

\* the caller: connected or not, the limits of the score calls started, and
\* since the disconnection: where the loop stood then, the calls started and
\* the records appended or frames yielded
Caller(disconnected, limits, stood, started, recorded) ==
    [kind |-> "caller", disconnected |-> disconnected, limits |-> limits,
     stood |-> stood, started |-> started, recorded |-> recorded]

LoopRequests ==
    [handler : {"stream", "backtest"}, window : {1, 2}, steps : 1..MaxSteps,
     step_size : {1, 2}]

InitLoops ==
    /\ raw \in {r \in LoopRequests : r.handler = "stream" => r.steps = 1 /\ r.step_size = 1}
    /\ symbol = <<"f">>
    /\ out = Locals("check", 0, <<>>, NoReport)
    /\ PROVIDER = SUPPORTED_PROVIDER
    /\ CACHE = <<>>
    /\ now = 0
    /\ call = Caller(FALSE, <<>>, "", 0, 0)
    /\ quotes = NoQuotes
    /\ look = NoLook

\* the caller goes away
Disconnect ==
    /\ ~call.disconnected
    /\ out.pc # "done"
    /\ call' = [call EXCEPT !.disconnected = TRUE, !.stood = out.pc]
    /\ UNCHANGED <<raw, symbol, out, PROVIDER, CACHE, now, quotes, look>>

\* the head of the loop: for i in range(body.steps) / while True, then the
\* disconnection check; a stream is followed for MaxSteps frames
Check ==
    /\ out.pc = "check"
    /\ raw.handler = "stream" => call.disconnected \/ out.i < MaxSteps
    /\ out' = IF raw.handler = "backtest" /\ out.i >= raw.steps
              THEN [out EXCEPT !.pc = "done", !.report = backtest_report(out.records)]
              ELSE IF loop_goes_on(call.disconnected) THEN [out EXCEPT !.pc = "post"]
              ELSE IF raw.handler = "backtest"
              THEN [out EXCEPT !.pc = "done", !.report = backtest_report(out.records)]
              ELSE [out EXCEPT !.pc = "done"]
    /\ UNCHANGED <<raw, symbol, PROVIDER, CACHE, now, call, quotes, look>>

\* client.post(score) is started
Post ==
    /\ out.pc = "post"
    /\ out' = [out EXCEPT !.pc = "await"]
    /\ call' = [call EXCEPT
                  !.limits = Append(@, IF raw.handler = "backtest" THEN limit_i(raw, out.i)
                                       ELSE raw.window),
                  !.started = IF call.disconnected THEN @ + 1 ELSE @]
    /\ UNCHANGED <<raw, symbol, PROVIDER, CACHE, now, quotes, look>>

\* the call returns or raises; the record is appended or the frame yielded,
\* and the loop sleeps and comes back to its head
Receive ==
    /\ out.pc = "await"
    /\ \E data \in ScoreReplies :
          out' = [out EXCEPT
                    !.pc = "check", !.i = @ + 1,
                    !.records = Append(@, IF raw.handler = "backtest"
                                          THEN backtest_record(out.i, limit_i(raw, out.i), data)
                                          ELSE data)]
    /\ call' = [call EXCEPT !.recorded = IF call.disconnected THEN @ + 1 ELSE @]
    /\ UNCHANGED <<raw, symbol, PROVIDER, CACHE, now, quotes, look>>

NextLoops == Disconnect \/ Check \/ Post \/ Receive

SpecLoops == InitLoops /\ [][NextLoops]_vars

\* the event loop runs a handler that can take a step
SpecLoopsFair == SpecLoops /\ WF_vars(Check \/ Post \/ Receive)

(***************************************************************************)
(* app/dev/parity_check.py: the command line (app/ml/predict.py) and the   *)
(* service (serve.py score) answering the same synthetic request, each in  *)
(* its own process, from the same files of data/. Each process draws its   *)
(* own random numbers: the random module is seeded from the operating      *)
(* system when a process starts and the repository never seeds it. The     *)
(* fitted model is a function of the feature row, here of the sign of      *)
(* ret_1 with the weight w the artifact holds.                             *)
(***************************************************************************)
\* model.predict_proba(X_scaled)[:, 1] for one row, in halves
model_row(w, row) ==
    IF w = 0 \/ IsZero(row.ret_1) THEN 1
    ELSE IF (w > 0) = (row.ret_1.num > 0) THEN 2 ELSE 0

\* Predictor._sha256 of the three files: equal contents give equal digests
artifact_hashes(artifacts) ==
    [model_pkl |-> <<"sha256", artifacts.w>>, scaler_pkl |-> <<"sha256", Len(FEATURES)>>,
     model_meta_json |-> <<"sha256", artifacts.threshold>>]

\* the draws of a process: d1 for the first k bars, d2 for the others
DrawPatterns == {p \in [k : {0, 10}, d1 : {-1, 1}, d2 : {-1, 1}] : p.k = 0 => p.d1 = p.d2}

DrawsOf(p, limit) ==
    [i \in 1..limit |->
        [step |-> IF i <= p.k THEN p.d1 ELSE p.d2, up |-> 0, down |-> 0, vol |-> 1000]]

\* one process answering the request: the series generated from its draws,
\* the features, the predictor loaded from the artifacts, the response
process_score(op, req, artifacts, draws, inst) ==
    The({LET pred == [feature_names |-> Array(FEATURES), threshold |-> artifacts.threshold,
                      scaler_n |-> PyI(Len(FEATURES)), model_n |-> PyI(Len(FEATURES)),
                      kind |-> "predict_proba",
                      answer |-> [r \in 1..Len(df_feats) |-> model_row(artifacts.w, df_feats[r])]]
         IN  The({[kind |-> s.kind, response |-> s.response, draws |-> draws,
                   artifact_hashes |-> artifact_hashes(artifacts)] :
                    s \in {score(op, pred, [cols |-> ServingColumns, n |-> Len(df_feats)],
                                 req.threshold)}}) :
           df_feats \in {build_features(synthetic_candles(req.limit, req.interval, req.mode, inst,
                                                           DrawsOf(draws, req.limit)))}})

ParityRequests ==
    [limit : {MaxSeries - 1, MaxSeries}, interval : {<<"5", "m">>}, mode : {"down"},
     threshold : {PyNone, PyF(1)}]

ParityArtifacts == [w : {-1, 0, 1}, threshold : {Absent}]

InitParity ==
    /\ raw \in [req : ParityRequests, artifacts : ParityArtifacts]
    /\ symbol = <<"f">>
    /\ out = [kind |-> "parity", cli |-> Pending, api |-> Pending]
    /\ PROVIDER = SUPPORTED_PROVIDER
    /\ CACHE = <<>>
    /\ now = 0
    /\ call = NoCall
    /\ quotes = NoQuotes
    /\ look = NoLook

\* run_cli: python -m app.ml.predict in a process of its own
RunCli ==
    /\ out.cli = Pending
    /\ \E draws \in DrawPatterns :
          out' = [out EXCEPT !.cli = process_score("main", raw.req, raw.artifacts, draws,
                                                   2 * Today)]
    /\ UNCHANGED <<raw, symbol, PROVIDER, CACHE, now, call, quotes, look>>

\* call_api: POST /api/v1/score to the service, after the command line has run
RunApi ==
    /\ out.cli # Pending
    /\ out.api = Pending
    /\ \E draws \in DrawPatterns :
          out' = [out EXCEPT !.api = process_score("score", raw.req, raw.artifacts, draws,
                                                   2 * Today)]
    /\ UNCHANGED <<raw, symbol, PROVIDER, CACHE, now, call, quotes, look>>

NextParity == RunCli \/ RunApi

SpecParity == InitParity /\ [][NextParity]_vars

(***************************************************************************)
(* Concurrent /score handlers. score is a plain def, so the framework runs *)
(* each request in a worker thread; each thread drives fetch_market_data   *)
(* in an event loop of its own (asyncio.run) and all of them share _CACHE  *)
(* with no lock. A thread can be switched out between any two calls into   *)
(* the dict: a step below is one such call together with the work on the   *)
(* thread's own locals that leads up to it. out holds each thread's        *)
(* locals, call the way the last finished fetch ended. The requests are    *)
(* synthetic ones, which miss nothing but the cache on their way.          *)
(***************************************************************************)
NThreads == 2       \* worker threads serving requests at the same time

Threads == 1..NThreads

NoKey == <<>>

\* a thread's position and locals: key (cache_key), t (_cache_get's now),
\* exp and val (the hit unpacked), n (the dict size the iterator saw when it
\* was made), k (the key next() gave)
Frame(pc, key, t, exp, val, n, k) ==
    [pc |-> pc, key |-> key, t |-> t, exp |-> exp, val |-> val, n |-> n, k |-> k]

Idle == Frame("idle", NoKey, 0, 0, "", 0, NoKey)

\* how a fetch ended: a cached payload returned, a fresh payload stored and
\* returned, or an exception out of _cache_set
FetchEnded(how, th, f, exc) ==
    [kind |-> how, th |-> th, key |-> f.key, at |-> f.t, exp |-> f.exp, exc |-> exc]

InitThreads ==
    /\ raw = NoBar
    /\ symbol = <<>>
    /\ out = [th \in Threads |-> Idle]
    /\ PROVIDER = SUPPORTED_PROVIDER
    /\ CACHE = <<>>
    /\ now = 0
    /\ call = FetchEnded("none", 0, Idle, "")
    /\ quotes = NoQuotes
    /\ look = NoLook

\* a request arrives at a free worker: fetch_market_data builds cache_key,
\* and _cache_get reads the clock
Enter ==
    \E th \in Threads, key \in StoreKeys :
        /\ out[th].pc = "idle"
        /\ out' = [out EXCEPT ![th] = Frame("get", key, now, 0, "", 0, NoKey)]
        /\ UNCHANGED <<raw, symbol, PROVIDER, CACHE, now, call, quotes, look>>

\* hit = _CACHE.get(key); a miss goes on to generate the bars and to _cache_set
CacheGetHit ==
    \E th \in Threads :
        LET f == out[th] IN
        /\ f.pc = "get"
        /\ out' = [out EXCEPT ![th] =
                     IF f.key \in Keys(CACHE)
                     THEN LET e == CACHE[IndexOf(CACHE, f.key)]
                          IN  Frame("unpacked", f.key, f.t, e.exp, e.val, 0, NoKey)
                     ELSE Frame("len", f.key, f.t, 0, "", 0, NoKey)]
        /\ UNCHANGED <<raw, symbol, PROVIDER, CACHE, now, call, quotes, look>>

\* if now > exp: _CACHE.pop(key, None), a miss; else the value is returned
CacheGetExpiry ==
    \E th \in Threads :
        LET f == out[th] IN
        /\ f.pc = "unpacked"
        /\ IF f.t > f.exp
           THEN /\ CACHE' = IF f.key \in Keys(CACHE)
                            THEN Remove(CACHE, IndexOf(CACHE, f.key)) ELSE CACHE
                /\ out' = [out EXCEPT ![th] = Frame("len", f.key, f.t, 0, "", 0, NoKey)]
                /\ call' = call
           ELSE /\ CACHE' = CACHE
                /\ out' = [out EXCEPT ![th] = Idle]
                /\ call' = FetchEnded("hit", th, f, "")
        /\ UNCHANGED <<raw, symbol, PROVIDER, now, quotes, look>>

\* _cache_set: if len(_CACHE) >= MAX_CACHE_SIZE
CacheSetLen ==
    \E th \in Threads :
        LET f == out[th] IN
        /\ f.pc = "len"
        /\ out' = [out EXCEPT ![th].pc = IF Len(CACHE) >= MAX_CACHE_SIZE THEN "iter" ELSE "store"]
        /\ UNCHANGED <<raw, symbol, PROVIDER, CACHE, now, call, quotes, look>>

\* iter(_CACHE): the iterator notes the size of the dict
CacheSetIter ==
    \E th \in Threads :
        LET f == out[th] IN
        /\ f.pc = "iter"
        /\ out' = [out EXCEPT ![th].pc = "next", ![th].n = Len(CACHE)]
        /\ UNCHANGED <<raw, symbol, PROVIDER, CACHE, now, call, quotes, look>>

\* next(...): RuntimeError if the dict changed size since iter(), StopIteration
\* (caught) if it is empty, else its first key
CacheSetNext ==
    \E th \in Threads :
        LET f == out[th] IN
        /\ f.pc = "next"
        /\ IF Len(CACHE) # f.n
           THEN /\ out' = [out EXCEPT ![th] = Idle]
                /\ call' = FetchEnded("raise", th, f, "RuntimeError")
           ELSE /\ out' = IF CACHE = <<>>
                          THEN [out EXCEPT ![th].pc = "store"]
                          ELSE [out EXCEPT ![th].pc = "pop", ![th].k = CACHE[1].key]
                /\ call' = call
        /\ UNCHANGED <<raw, symbol, PROVIDER, CACHE, now, quotes, look>>

\* _CACHE.pop(k): KeyError if k is no longer a key
CacheSetPop ==
    \E th \in Threads :
        LET f == out[th] IN
        /\ f.pc = "pop"
        /\ IF f.k \in Keys(CACHE)
           THEN /\ CACHE' = Remove(CACHE, IndexOf(CACHE, f.k))
                /\ out' = [out EXCEPT ![th].pc = "store"]
                /\ call' = call
           ELSE /\ CACHE' = CACHE
                /\ out' = [out EXCEPT ![th] = Idle]
                /\ call' = FetchEnded("raise", th, f, "KeyError")
        /\ UNCHANGED <<raw, symbol, PROVIDER, now, quotes, look>>

\* _CACHE[key] = (time.time() + CACHE_TTL_SEC, val), and the payload returned.
\* The clock is read in the step that stores: a thread held up between the two
\* would store an earlier expiry, which no property below depends on.
CacheSetItem ==
    \E th \in Threads :
        LET f == out[th]
            e == [key |-> f.key, exp |-> now + CACHE_TTL_SEC, val |-> "p"]
        IN  /\ f.pc = "store"
            /\ CACHE' = IF f.key \in Keys(CACHE)
                        THEN [i \in 1..Len(CACHE) |-> IF CACHE[i].key = f.key THEN e ELSE CACHE[i]]
                        ELSE Append(CACHE, e)
            /\ out' = [out EXCEPT ![th] = Idle]
            /\ call' = FetchEnded("stored", th, f, "")
            /\ UNCHANGED <<raw, symbol, PROVIDER, now, quotes, look>>

NextThreads ==
    \/ Enter \/ CacheGetHit \/ CacheGetExpiry
    \/ CacheSetLen \/ CacheSetIter \/ CacheSetNext \/ CacheSetPop \/ CacheSetItem
    \/ Tick

SpecThreads == InitThreads /\ [][NextThreads]_vars

(***************************************************************************)
(* Claims about validate_bar (SpecValidate).                               *)
(***************************************************************************)
Present(bar) == \A i \in 1..Len(Required) : bar[Required[i]].t # "absent"

Ordered(o, h, l, c) ==
    FloatLe(l, o) /\ FloatLe(o, h) /\ FloatLe(l, c) /\ FloatLe(c, h)

ConvertsFinite(x) == PyFloat(x).ok /\ IsFinite(PyFloat(x).val)

ValidOHLC(bar) ==
    /\ Present(bar)
    /\ \A i \in 1..Len(Required) : ConvertsFinite(bar[Required[i]])
    /\ Ordered(PyFloat(bar["open"]).val, PyFloat(bar["high"]).val,
               PyFloat(bar["low"]).val, PyFloat(bar["close"]).val)

\* C1: validate_bar returns a bar exactly when open, high, low and close are
\* present, convert to finite floats and satisfy low <= open <= high and
\* low <= close <= high, and None otherwise; so every bar returned has finite,
\* ordered OHLC values.
C1_BarExactlyWhenValid ==
    out.kind \in {"bar", "None"} =>
        /\ (out.kind = "bar") <=> ValidOHLC(raw)
        /\ out.kind = "bar" =>
              /\ \A f \in {out.open, out.high, out.low, out.close} : IsFinite(f)
              /\ Ordered(out.open, out.high, out.low, out.close)

\* the texts and values _parse_ts cannot turn into a time
Unparseable(ts) == ts.t \in {"nan", "bigint"} \/ (ts.t = "str" /\ ~FromIso(ts.s).ok)

\* the code's own test of open, high, low and close
AcceptedOHLC(bar) ==
    /\ Present(bar)
    /\ \A i \in 1..Len(Required) : PyFloat(bar[Required[i]]).ok
    /\ Ordered(PyFloat(bar["open"]).val, PyFloat(bar["high"]).val,
               PyFloat(bar["low"]).val, PyFloat(bar["close"]).val)

\* C2: validate_bar never raises: every call ends with a bar or None, whatever
\* the volume, the timestamp or the OHLC values are, and an unparseable
\* timestamp gives a bar without a timestamp, not a rejection.
C2_NeverRaises ==
    out.kind # "pending" =>
        /\ out.kind \in {"bar", "None"}
        /\ Unparseable(raw["ts"]) /\ AcceptedOHLC(raw) => out.kind = "bar" /\ ~out.hasTs

\* C3: every bar returned has a volume that is an integer >= 0, and the volume
\* is 0 when the raw record has no volume or a null one.
C3_VolumeNonNegative ==
    out.kind = "bar" =>
        /\ out.volume \in Int /\ out.volume >= 0
        /\ raw["volume"].t \in {"absent", "none"} => out.volume = 0

(***************************************************************************)
(* Claims about fetch_market_data (Spec).                                  *)
(***************************************************************************)
Called == call.kind # "none"

\* C4: a non-synthetic call that misses the cache and whose request ends in
\* HTTP 429 or a network failure returns a payload whose candles are the
\* generator's, run once with the call's limit, normalized interval and mode.
C4_FallbackOn429OrNetworkError ==
    Called /\ call.response \in {"429", "RequestError"} =>
        /\ call.args.synthetic = 0 /\ ~call.fromCache
        /\ call.kind = "return"
        /\ call.payload.candles =
              synthetic_candles_list(call.args.limit, normalize_interval(call.args.interval).val,
                                     call.args.mode, call.at)
        /\ call.generated = <<call.payload.candles>>

C4_Witness ==
    Called /\ call.kind = "return" /\ call.response = "429" /\ call.args.mode = "up"

\* the cache without the expired entry under the key that a lookup at time t drops
WithoutExpired(cache, key, t) ==
    LET Keep(e) == ~(e.key = key /\ t > e.exp) IN SelectSeq(cache, Keep)

\* C5 (as stated): after an HTTP error status other than 429 the error
\* propagates, nothing is generated and the cache is exactly as before the call.
C5_CacheUntouchedOnOtherStatus ==
    [][ call'.kind # "none" /\ call' # call /\ call'.response = "500" =>
            /\ call'.kind = "raise" /\ call'.err = "HTTPStatusError"
            /\ call'.generated = <<>>
            /\ CACHE' = CACHE ]_vars

\* C5 (amended): after an HTTP error status other than 429 the error
\* propagates, nothing is generated and nothing is stored; the cache is as
\* before the call except that, with use_cache, the lookup has dropped the
\* expired entry under the call's own key.
C5_OtherStatusPropagates ==
    [][ call'.kind # "none" /\ call' # call /\ call'.response = "500" =>
            /\ call'.kind = "raise" /\ call'.err = "HTTPStatusError"
            /\ call'.generated = <<>> /\ ~call'.stored
            /\ CACHE' = IF call'.args.use_cache
                         THEN WithoutExpired(CACHE, call'.key, now)
                         ELSE CACHE ]_vars

C5_Witness ==
    Called /\ call.response = "500" /\ call.kind = "raise" /\ call.args.use_cache

\* the expiry of the entry the last call returned or stored
EntryExpiry == IF call.fromCache THEN call.hitExp ELSE call.at + CACHE_TTL_SEC

\* C6: a call with use_cache that follows a returned call with use_cache and
\* the same key, no later than the expiry of that call's entry, returns the
\* same payload (as_of and candles included) out of the cache, with no
\* request and no generation.
C6_SecondCallHits ==
    [][ /\ call.kind = "return" /\ call.args.use_cache
        /\ call'.kind # "none" /\ call' # call
        /\ call'.args.use_cache /\ call'.key = call.key
        /\ now <= EntryExpiry
        => /\ call'.kind = "return" /\ call'.fromCache
           /\ call'.payload = call.payload
           /\ call'.response = "none" /\ call'.generated = <<>> ]_vars

C6_Witness ==
    Called /\ call.kind = "return" /\ call.fromCache /\ call.at > call.payload.as_of

\* C8: after any sequence of calls the cache holds at most MAX_CACHE_SIZE entries.
C8_CacheBounded == Len(CACHE) <= MAX_CACHE_SIZE

C8_Witness ==
    Called /\ call.stored /\ call.found >= MAX_CACHE_SIZE /\ Len(CACHE) = MAX_CACHE_SIZE

\* C9: when a call returns a payload it did not take from the cache, the cache
\* holds under the call's key an entry with that payload, expiring
\* CACHE_TTL_SEC after the store.
C9_StoredBeforeReturn ==
    Called /\ call.kind = "return" /\ ~call.fromCache =>
        \E i \in 1..Len(CACHE) :
            /\ CACHE[i].key = call.key
            /\ CACHE[i].val = call.payload
            /\ CACHE[i].exp = call.at + CACHE_TTL_SEC

C9_Witness ==
    /\ Called /\ call.kind = "return" /\ call.response = "RequestError"
    /\ ~call.args.use_cache /\ call.found >= MAX_CACHE_SIZE

\* C10 (as stated): with an unsupported provider configured, every call (with
\* a supported interval) fails with the unsupported-provider error, whatever
\* the synthetic flag and the cache.
C10_EveryCallFails ==
    Called /\ PROVIDER # SUPPORTED_PROVIDER /\ normalize_interval(call.args.interval).ok =>
        call.kind = "raise" /\ call.err = "Unsupported provider"

\* C10 (amended): with an unsupported provider configured, every
\* non-synthetic call with a supported interval fails with the
\* unsupported-provider error, without a request and without storing.
C10_LiveCallsFail ==
    /\ Called /\ PROVIDER # SUPPORTED_PROVIDER
    /\ call.args.synthetic = 0 /\ normalize_interval(call.args.interval).ok
    => /\ call.kind = "raise" /\ call.err = "Unsupported provider"
       /\ call.response = "none" /\ ~call.stored

C10_Witness ==
    /\ Called /\ PROVIDER # SUPPORTED_PROVIDER /\ call.err = "Unsupported provider"
    /\ call.args.use_cache /\ CACHE # <<>>

(***************************************************************************)
(* Claims about the caches (SpecCache).                                    *)
(***************************************************************************)
\* the entry a lookup finds under its key
EntryOf(which, key) ==
    IF which = "_cache_get"
    THEN [exp |-> CACHE[IndexOf(CACHE, key)].exp, val |-> CACHE[IndexOf(CACHE, key)].val]
    ELSE [exp |-> quotes[key].exp, val |-> quotes[key].data]

\* C7: a lookup returns an entry only at a time <= the entry's expiry, and a
\* lookup that finds an expired entry removes it and reports a miss.
C7_NeverReturnsExpired ==
    [][ look' # look =>
          /\ look'.hit =>
                /\ look'.found
                /\ look'.at <= EntryOf(look'.kind, look'.key).exp
                /\ look'.val = EntryOf(look'.kind, look'.key).val
          /\ look'.found /\ now > EntryOf(look'.kind, look'.key).exp =>
                /\ ~look'.hit
                /\ IF look'.kind = "_cache_get"
                   THEN look'.key \notin Keys(CACHE')
                   ELSE look'.key \notin DOMAIN quotes' ]_vars

C7_Witness == look.kind = "_cache_get" /\ look.found /\ ~look.hit

(***************************************************************************)
(* Claims about interval normalization (SpecInterval).                     *)
(***************************************************************************)
\* the interval a text stands for: trimmed, in lower case, "5" read as "5m"
Canonical(s) ==
    LET c == Lower(Strip(s)) IN IF c = <<"5">> THEN <<"5", "m">> ELSE c

\* C11: _normalize_interval returns the trimmed, lower-cased text ("5" as
\* "5m") when that is one of the allowed intervals and raises the
\* unsupported-interval error otherwise; a fetch_market_data call with a
\* rejected text raises that error with the cache as it was, nothing read from
\* it, nothing stored, nothing generated and no request made, and a call with
\* an accepted text works under the normalized interval.
C11_IntervalNormalized ==
    [][ /\ out' # out =>
              out' = IF Canonical(raw) \in ALLOWED_INTERVALS
                     THEN Returned(Canonical(raw))
                     ELSE Raised("unsupported interval")
        /\ call'.kind # "none" /\ call' # call =>
              IF Canonical(call'.args.interval) \in ALLOWED_INTERVALS
              THEN /\ call'.kind = "return"
                   /\ call'.key[2] = Canonical(call'.args.interval)
                   /\ call'.payload.interval = Canonical(call'.args.interval)
              ELSE /\ call'.kind = "raise" /\ call'.err = "unsupported interval"
                   /\ CACHE' = CACHE
                   /\ ~call'.fromCache /\ ~call'.stored
                   /\ call'.generated = <<>> /\ call'.response = "none" ]_vars

\* a rejected call made when the cache holds an expired entry
C11_Witness ==
    /\ Called /\ call.err = "unsupported interval" /\ out = Raised("unsupported interval")
    /\ \E i \in 1..Len(CACHE) : call.at > CACHE[i].exp

(***************************************************************************)
(* Claims about the synthetic generator (SpecSynthetic).                   *)
(***************************************************************************)
\* the duration of an interval, in seconds
IntervalSeconds(interval) ==
    CASE interval = <<"1", "m">> -> 60
      [] interval = <<"2", "m">> -> 120
      [] interval = <<"5", "m">> -> 300
      [] interval = <<"1", "5", "m">> -> 900
      [] interval = <<"3", "0", "m">> -> 1800
      [] interval = <<"6", "0", "m">> -> 3600
      [] interval = <<"9", "0", "m">> -> 5400
      [] interval = <<"1", "h">> -> 3600
      [] interval = <<"1", "d">> -> 86400

\* C12: for every limit > 0, allowed interval and mode the generator returns
\* at most limit bars, each one a bar validate_bar accepted, with timestamps
\* that increase by exactly the duration of the interval from bar to bar, the
\* last bar stamped with the second of the generation.
C12_SyntheticSeries ==
    out.kind = "generated" /\ raw.limit > 0 =>
        LET bars == out.bars IN
        /\ Len(bars) <= raw.limit
        /\ \A i \in 1..Len(bars) :
              /\ bars[i].kind = "bar" /\ bars[i].hasTs
              /\ Ordered(bars[i].open, bars[i].high, bars[i].low, bars[i].close)
        /\ \A i \in 1..(Len(bars) - 1) :
              bars[i + 1].ts.v - bars[i].ts.v = IntervalSeconds(raw.interval)
        /\ bars # <<>> => bars[Len(bars)].ts.v = Today + now

(***************************************************************************)
(* Claims about normalize_yahoo_chart (SpecYahoo).                         *)
(***************************************************************************)
\* the number of indices the five arrays share
Shared(resp) ==
    Min5(Len(resp.timestamp.items), Len(resp.open.items), Len(resp.high.items),
         Len(resp.low.items), Len(resp.close.items))

Numeric(x) == x.t \in {"int", "float"}

\* index i holds a well-formed bar: a timestamp, numeric open, high, low and
\* close within the range check, and a volume that is a number or missing
WellFormed(resp, i) ==
    /\ Numeric(resp.timestamp.items[i])
    /\ \A k \in {"open", "high", "low", "close"} : Numeric(resp[k].items[i])
    /\ Ordered(PyFloat(resp.open.items[i]).val, PyFloat(resp.high.items[i]).val,
               PyFloat(resp.low.items[i]).val, PyFloat(resp.close.items[i]).val)
    /\ resp.volume.t = "array" /\ i <= Len(resp.volume.items) =>
          resp.volume.items[i].t \in {"int", "float", "none"}

\* the timestamps of the well-formed indices from i on, in order
RECURSIVE WellFormedFrom(_, _)
WellFormedFrom(resp, i) ==
    IF i > Shared(resp) THEN <<>>
    ELSE (IF WellFormed(resp, i) THEN <<i>> ELSE <<>>) \o WellFormedFrom(resp, i + 1)

\* C13: normalize_yahoo_chart never raises; for a response with the parallel
\* arrays it returns the validated bars of exactly the well-formed indices
\* below the shortest of the five array lengths, in order, a malformed entry
\* removing only its own bar; a response that cannot be read at the top level
\* gives the empty list.
C13_FailureLocalPerBar ==
    out.kind # "pending" =>
        /\ out.kind = "return"
        /\ raw.top # "result[0]" => out.val = <<>>
        /\ raw.top = "result[0]" =>
              LET idx == WellFormedFrom(raw, 1) IN
              /\ Len(out.val) = Len(idx)
              /\ \A j \in 1..Len(idx) :
                    /\ out.val[j].kind = "bar"
                    /\ out.val[j].ts = raw.timestamp.items[idx[j]]
                    /\ out.val[j].open = PyFloat(raw.open.items[idx[j]]).val
                    /\ out.val[j].close = PyFloat(raw.close.items[idx[j]]).val

(***************************************************************************)
(* Claims about the feature builders (SpecFeatures).                       *)
(***************************************************************************)
\* C14: for a series of n validated bars build_features returns n - 19 rows
\* when n >= 20 and no row otherwise: only the 19 leading warm-up rows are
\* dropped.
C14_RowCount ==
    out.kind = "features" =>
        Len(out.val) = IF raw.n >= 20 THEN raw.n - 19 ELSE 0

\* the closes of the series in time order, in halves
ClosesOf(x) == [i \in 1..x.n |-> SeriesClose(i, x.k, x.d1, x.d2)]

\* bar i closes a full window of 14 changes none of which is a loss
ZeroLossWindow(closes, i) ==
    i >= 15 /\ i <= Len(closes) /\ \A j \in (i - 13)..i : closes[j] >= closes[j - 1]

Is100(x) == x.t = "num" /\ x.num = 100 * x.den
Within0To100(x) == x.t = "num" /\ 0 <= x.num /\ x.num <= 100 * x.den

\* C15: where a full 14-period window has no loss, rsi_14 is defined and is
\* exactly 100, and wherever rsi_14 is defined it lies in [0, 100]; for the
\* RSI of the strict feature builder and for the baseline RSI.
C15_RsiRange ==
    LET closes == ClosesOf(raw) IN
    /\ out.kind = "rsi" =>
          \A i \in 1..Len(out.val) :
              /\ ZeroLossWindow(closes, i) => Is100(out.val[i])
              /\ ~IsNaN(out.val[i]) => Within0To100(out.val[i])
    /\ out.kind = "rsi14" =>
          /\ ZeroLossWindow(closes, Len(closes)) => Is100(out.val)
          /\ out.val.t = "num" => Within0To100(out.val)

(***************************************************************************)
(* Claims about the predictor and the score response (SpecScore).          *)
(***************************************************************************)
\* the names the metadata declares (none: <<>>)
Declared ==
    IF raw.pred.feature_names.t = "array" THEN raw.pred.feature_names.items ELSE <<>>

AllPresent == \A i \in 1..Len(Declared) : InCols(Declared[i], raw.X.cols)

\* the declared columns of the table, in the declared order
DeclaredMatrix == [j \in 1..Len(Declared) |-> Col(Declared[j], raw.X.n)]

\* C16: with a non-empty declared list whose columns the table all has, in
\* whatever order and with whatever other columns, no column is reported
\* missing and every matrix handed to the scaler is the declared columns in
\* the declared order; the scaler gets it unless the width check fails.
C16_DeclaredOrder ==
    out.kind # "pending" /\ Declared # <<>> /\ AllPresent =>
        /\ out.err # "Missing required feature columns"
        /\ \A i \in 1..Len(out.scaler_in) : out.scaler_in[i] = DeclaredMatrix
        /\ out.err # "Feature dimension mismatch" => out.scaler_in # <<>>

C16_Witness ==
    /\ out.kind = "return" /\ out.op = "predict_proba" /\ out.scaler_in # <<>>
    /\ raw.X.cols = <<"close", "rsi_14", "ret_1">> /\ Declared = <<"ret_1", "rsi_14">>
    /\ raw.X.n > 0

\* the declared names the table lacks, in the declared order
AbsentDeclared ==
    LET Lacking(c) == \A i \in 1..Len(raw.X.cols) : raw.X.cols[i] # c
    IN  SelectSeq(Declared, Lacking)

\* C17: with a declared list of which the table lacks a column, predict_proba
\* and predict (and the scoring built on them) fail with the
\* missing-required-feature-columns error naming exactly the absent declared
\* columns in declared order, whatever the widths are, and neither the scaler
\* nor the model is run.
C17_MissingColumns ==
    out.kind # "pending" /\ Declared # <<>> /\ ~AllPresent =>
        /\ out.kind = "raise" /\ out.err = "Missing required feature columns"
        /\ out.missing = AbsentDeclared
        /\ out.scaler_in = <<>> /\ out.model_runs = 0

\* two columns missing, and a width that would fail the check as well
C17_Witness ==
    /\ out.kind = "raise" /\ out.op = "predict" /\ Len(out.missing) = 2
    /\ raw.pred.scaler_n = PyI(2) /\ Len(Declared) = 3

\* the width the artifacts expose: the scaler's, else the model's, else none (-1)
ExposedWidth ==
    IF raw.pred.scaler_n.t = "int" THEN raw.pred.scaler_n.v
    ELSE IF raw.pred.model_n.t = "int" THEN raw.pred.model_n.v
    ELSE -1

\* the width of the matrix after alignment
AlignedWidth == IF Declared # <<>> THEN Len(Declared) ELSE Len(raw.X.cols)

\* C18: when no declared column is missing, scoring fails with the dimension
\* error, naming the expected and the actual width, without running the
\* scaler or the model, exactly when the scaler's width (or, if the scaler
\* exposes none, the model's) exists and differs from the width of the
\* aligned matrix; with no width exposed there is no dimension error.
C18_WidthCheck ==
    out.kind # "pending" /\ (Declared = <<>> \/ AllPresent) =>
        IF ExposedWidth # -1 /\ AlignedWidth # ExposedWidth
        THEN /\ out.kind = "raise" /\ out.err = "Feature dimension mismatch"
             /\ out.expected = ExposedWidth /\ out.got = AlignedWidth
             /\ out.scaler_in = <<>> /\ out.model_runs = 0
        ELSE out.err # "Feature dimension mismatch"

\* the model's width used because the scaler exposes none
C18_Witness ==
    /\ out.kind = "raise" /\ out.err = "Feature dimension mismatch"
    /\ raw.pred.scaler_n = Absent /\ out.expected = 2 /\ out.got = 3

\* the threshold the claim names: the caller's, else the metadata's, else 0.5
ClaimedThreshold ==
    IF raw.threshold.t # "none" THEN Fin(raw.threshold.v)
    ELSE IF raw.pred.threshold.t # "absent" THEN Fin(raw.pred.threshold.v)
    ELSE Fin(1)

\* C19: predict uses the caller's threshold whenever one is given (0.0
\* included), else the metadata's, else 0.5; a row is labelled 1 exactly when
\* its probability is >= that threshold and 0 otherwise; the threshold in
\* the score response is the one the predictions were made with.
C19_Threshold ==
    out.kind = "return" /\ out.op \in {"predict", "score", "main"} =>
        /\ out.used = ClaimedThreshold
        /\ Len(out.pred) = Len(out.proba)
        /\ \A r \in 1..Len(out.pred) :
              out.pred[r] = IF out.proba[r].v >= ClaimedThreshold.v THEN 1 ELSE 0
        /\ out.op # "predict" => out.response.threshold = out.used

\* a caller threshold of 0.0 over a metadata threshold of 1.0
C19_Witness ==
    /\ out.kind = "return" /\ out.op = "score"
    /\ raw.threshold = PyF(0) /\ raw.pred.threshold = PyF(2)
    /\ \E r \in 1..Len(out.pred) : out.proba[r] = Fin(0) /\ out.pred[r] = 1

\* C20: in every successful score response, of the API and of the CLI,
\* counts.pred_0 + counts.pred_1 = n_rows_scored, n_rows_scored is the number
\* of rows of the feature table scored, and last.pred is the prediction of
\* the last row.
C20_Counts ==
    out.kind = "return" /\ out.op \in {"score", "main"} =>
        /\ out.response.counts.pred_0 + out.response.counts.pred_1
              = out.response.n_rows_scored
        /\ out.response.n_rows_scored = raw.X.n
        /\ out.response.last.pred = out.pred[raw.X.n]

C20_Witness ==
    /\ out.kind = "return" /\ out.op = "main" /\ raw.X.n = 2
    /\ out.response.counts.pred_0 = 1 /\ out.response.counts.pred_1 = 1
    /\ out.response.last.pred = 0

(***************************************************************************)
(* Claims about the baseline RSI (SpecFeatures).                           *)
(***************************************************************************)
\* the RSI of the average gain and the average loss over the last `period`
\* close-to-close changes of closes (which has more than `period` entries)
RsiOverLastChanges(closes, period) ==
    LET sums == rsi14_loop(closes, Len(closes) - period + 1, Num(0, 1), Num(0, 1))
        avg_gain == Div(sums.gains, Num(period, 1))
        avg_loss == Div(sums.losses, Num(period, 1))
    IN  IF IsZero(avg_loss) THEN Num(100, 1)
        ELSE Sub(Num(100, 1), Div(Num(100, 1), Add(Num(1, 1), Div(avg_gain, avg_loss))))

\* two cells holding the same number
SameNumber(a, b) == a.t = "num" /\ b.t = "num" /\ a.num * b.den = b.num * a.den

\* C28: _rsi14(closes, 14) is None exactly when fewer than 15 closes are
\* given, and for 15 closes or more it is the RSI of the average gain and the
\* average loss over the last 14 consecutive close-to-close changes.
C28_Rsi14LastPeriodChanges ==
    out.kind = "rsi14" =>
        LET closes == ensure_df(Series(raw)).close IN
        /\ (out.val = PyNone) <=> (Len(closes) < 14 + 1)
        /\ Len(closes) > 14 => SameNumber(out.val, RsiOverLastChanges(closes, 14))

\* the part of C28 that holds: None exactly when fewer than 15 closes are given
C28_NoneWhenShort ==
    out.kind = "rsi14" => ((out.val = PyNone) <=> (raw.n < 14 + 1))

(***************************************************************************)
(* Claims about eviction (SpecStore).                                      *)
(***************************************************************************)
\* the keys of a sequence of entries, in order
KeySeq(entries) == [i \in 1..Len(entries) |-> entries[i].key]

\* the store on record found the cache at capacity
StoredAtCapacity == call.kind = "_cache_set" /\ Len(call.before) >= MAX_CACHE_SIZE

SameValue(a, b) ==
    IF a.t = "sqrt" /\ b.t = "num"
    THEN b.num >= 0 /\ b.num * b.num * a.den = a.num * b.den * b.den
    ELSE IF a.t = "num" /\ b.t = "sqrt"
    THEN a.num >= 0 /\ a.num * a.num * b.den = b.num * a.den * a.den
    ELSE IF a.t = "nan" \/ b.t = "nan" THEN a.t = b.t
    ELSE a.num * b.den = b.num * a.den

\* the 10-period rolling mean of the volumes of the series
VolumeMean10(x) == rolling_mean(ensure_df(TrainSeries(x)).volume, 10)

\* C27: on the same bars the vol_10 column of add_features and the vol_10
\* column of build_features hold the same values, bar by bar: the 10-period
\* rolling mean of volume.
C27_SameVol10 ==
    /\ out.kind = "add_features" =>
          \A i \in 1..raw.n : SameValue(out.val.vol_10[i], VolumeMean10(raw)[i])
    /\ out.kind = "build_features" =>
          \A i \in 1..raw.n : SameValue(out.val.vol_10[i], VolumeMean10(raw)[i])

\* the part of C27 that holds: the serving column is the rolling mean of volume
C27_ServingVol10 ==
    out.kind = "build_features" =>
        \A i \in 1..raw.n : SameValue(out.val.vol_10[i], VolumeMean10(raw)[i])

(***************************************************************************)
(* Claims about the training artifacts (SpecArtifacts).                    *)
(***************************************************************************)
\* a Predictor was constructed from artifacts that --save_artifacts wrote
LoadedSaved ==
    out.kind \in {"constructed", "prepared"} /\ raw.args.save_artifacts /\ out.pred.ok

\* C26: a Predictor constructed from the artifacts that --save_artifacts wrote
\* has feature_names equal to the training FEATURES list, in training order,
\* and hands the scaler the FEATURES columns of the table in that order.
C26_DeclaredOrderAfterTraining ==
    /\ LoadedSaved => feature_names(out.pred.val.feature_names) = FEATURES
    /\ LoadedSaved /\ out.kind = "prepared" =>
          out.X_arr = Ok([i \in 1..Len(FEATURES) |-> Col(FEATURES[i], raw.rows)])

\* what holds instead: the predictor is in fallback mode and takes the table
\* as it is, so the width check rejects the 14 columns of build_features
C26_FallbackAfterTraining ==
    /\ LoadedSaved => feature_names(out.pred.val.feature_names) = <<>>
    /\ LoadedSaved /\ out.kind = "prepared" =>
          out.X_arr = Failure("Feature dimension mismatch", <<>>, Len(FEATURES),
                              Len(ServingColumns))

(***************************************************************************)
(* Claims about the score handler (SpecRequest).                           *)
(***************************************************************************)
\* the text of the exception raised in the fetch or in the construction of
\* the predictor, "" when neither raised
RaisedText ==
    IF ~raw.fetched.ok THEN raw.fetched.err
    ELSE IF ~raw.loaded.ok THEN raw.loaded.err
    ELSE ""

\* C30: a request whose series gives no complete feature row, as every series
\* of fewer than 20 candles does, is answered with HTTP 400 and never with a
\* response of n_rows_scored = 0, and an exception raised in the fetch, in the
\* feature building or in the prediction is answered with HTTP 400 whose
\* detail is the text of the exception.
C30_NoRowsIs400 ==
    out.kind = "http" =>
        /\ out.candles >= 0 /\ out.candles < 20 => out.rows = 0
        /\ out.rows = 0 => out.status = 400 /\ out.detail # ""
        /\ out.status = 200 => out.body.n_rows_scored = out.rows /\ out.rows >= 1
        /\ out.status \in {200, 400}
        /\ RaisedText # "" => out.status = 400 /\ out.detail = RaisedText

\* a synthetic request of fewer than 20 candles, fetched and scored by a loaded
\* predictor, answered 400
C30_Witness ==
    /\ out.kind = "http" /\ raw.req.synthetic = 1 /\ raw.req.limit < 20
    /\ raw.fetched.ok /\ raw.loaded.ok
    /\ out.candles = raw.req.limit /\ out.rows = 0
    /\ out.status = 400 /\ out.detail = "IndexError"

(***************************************************************************)
(* Claims about the fetcher call of a score request (SpecFlex).            *)
(***************************************************************************)
FlexEnded == out.kind \in {"flex:return", "flex:raise"}

\* the provider's answer to the first request of the call
FirstAnswer == IF raw.k >= 1 THEN raw.first ELSE raw.rest

\* C23: one score request runs the series fetcher at most once and makes at
\* most one provider request, whatever is raised inside the fetcher.
C23_FetcherCalledOnce ==
    FlexEnded => Len(out.calls) <= 1 /\ out.requests <= 1

\* what holds instead: the fetcher runs once more for every TypeError raised
\* inside it, up to the six shapes that can be bound, each run making its own
\* provider request, and at most once when the first answer raises none
C23_CalledAgainOnTypeError ==
    FlexEnded =>
        /\ Len(out.calls) <= 6 /\ out.requests <= Len(out.calls)
        /\ Len(out.calls) > 1 => FirstAnswer = [status |-> "200", parse |-> "TypeError"]
        /\ FirstAnswer.parse # "TypeError" => Len(out.calls) <= 1

(***************************************************************************)
(* Claims about the stream and replay loops (SpecLoopsFair).               *)
(***************************************************************************)
\* C22: in both loops, once the caller has disconnected at most one further
\* score call is started, and only by a loop that stood past its check at the
\* disconnection; with that call's record or frame at most one more is
\* appended or yielded, the loop then stops, and a stopped loop has started
\* and recorded nothing beyond that.
C22_StopsAfterDisconnect ==
    /\ [](call.disconnected =>
            /\ call.started <= 1
            /\ call.recorded <= 1
            /\ call.started = 1 => call.stood = "post"
            /\ call.recorded = 1 => call.stood \in {"post", "await"}
            /\ call.stood = "check" => call.started = 0 /\ call.recorded = 0)
    /\ (call.disconnected ~> out.pc = "done")

\* a loop left by the caller when it stood past its check started one more
\* score call, recorded it and stopped
C22_Witness ==
    /\ call.disconnected /\ call.stood = "post"
    /\ call.started = 1 /\ call.recorded = 1 /\ out.pc = "done"

\* C25: a replay whose caller stays connected ends, after exactly `steps`
\* score calls with limits window + i * step_size for i = 0 .. steps - 1;
\* record i + 1 has step i and that limit, a failed call is recorded as the
\* error of its step with no last prediction, n_steps is the number of
\* records and last_pred_0 + last_pred_1 the number of records with a last
\* prediction.
C25_ReplayReport ==
    /\ [](raw.handler = "backtest" /\ out.pc = "done" /\ ~call.disconnected =>
            /\ call.limits = [k \in 1..raw.steps |-> raw.window + (k - 1) * raw.step_size]
            /\ Len(out.report.records) = raw.steps
            /\ \A k \in 1..raw.steps :
                  LET r == out.report.records[k]
                  IN  /\ r.step = k - 1
                      /\ r.limit = raw.window + (k - 1) * raw.step_size
                      /\ r.error # PyNone <=> r.last = PyNone
            /\ out.report.n_steps = Len(out.report.records)
            /\ out.report.summary.last_pred_0 + out.report.summary.last_pred_1
                  = Cardinality({k \in 1..raw.steps : out.report.records[k].last # PyNone}))
    /\ (raw.handler = "backtest" ~> (out.pc = "done" \/ call.disconnected))

\* a finished replay of MaxSteps steps, never disconnected, with a failed
\* step between two scored ones
C25_Witness ==
    /\ raw.handler = "backtest" /\ raw.steps = MaxSteps /\ raw.step_size = 2
    /\ out.pc = "done" /\ ~call.disconnected
    /\ out.report.n_steps = MaxSteps
    /\ out.report.records[1].last # PyNone
    /\ out.report.records[2].error # PyNone
    /\ out.report.summary.last_pred_0 + out.report.summary.last_pred_1 = MaxSteps - 1

(***************************************************************************)
(* Claims about the parity of the command line and the service             *)
(* (SpecParity).                                                           *)
(***************************************************************************)
BothAnswered ==
    /\ out.kind = "parity" /\ out.cli # Pending /\ out.api # Pending
    /\ out.cli.kind = "return" /\ out.api.kind = "return"

\* C21: the two processes, given the same artifacts and the same synthetic
\* request, answer with the same n_rows_scored, the same last.proba, the same
\* last.pred and the same artifact_hashes.
C21_ProcessesAgree ==
    BothAnswered =>
        /\ out.cli.response.n_rows_scored = out.api.response.n_rows_scored
        /\ out.cli.response.last.proba = out.api.response.last.proba
        /\ out.cli.response.last.pred = out.api.response.last.pred
        /\ out.cli.artifact_hashes = out.api.artifact_hashes

\* what holds instead: the artifact hashes agree, and the responses agree
\* when the two processes happened to draw the same random numbers
C21_AgreeOnSameDraws ==
    /\ out.kind = "parity" /\ out.cli # Pending /\ out.api # Pending =>
          out.cli.artifact_hashes = out.api.artifact_hashes
    /\ BothAnswered /\ out.cli.draws = out.api.draws =>
          out.cli.response = out.api.response

(***************************************************************************)
(* Claims about concurrent fetches (SpecThreads).                          *)
(***************************************************************************)
\* C24: under every interleaving of the concurrent fetches of the service, the
\* cache never holds more than MAX_CACHE_SIZE entries, _cache_set never raises,
\* and no lookup returns an entry that had expired by the time it read.
C24_ThreadsKeepCacheSafe ==
    /\ Len(CACHE) <= MAX_CACHE_SIZE
    /\ call.kind # "raise"
    /\ (call.kind = "hit" => call.at <= call.exp)

\* what holds of the threads: a lookup never returns an entry that had
\* expired when it read the clock, each thread past the size test adds at
\* most one entry, and nothing but KeyError and RuntimeError comes out
C24_ThreadsOvershootByOneEach ==
    /\ (call.kind = "hit" => call.at <= call.exp)
    /\ Len(CACHE) <= MAX_CACHE_SIZE + NThreads - 1
    /\ (call.kind = "raise" => call.exc \in {"KeyError", "RuntimeError"})

====
